---- MODULE Spec2Model ----
(***************************************************************************)
(* Order-execution pipeline of flox-connectors: the timeout tracker        *)
(* (TimeoutOrderTracker), the rate-limit and timeout policies              *)
(* (executor_policies.h) and the Bybit / Bitget / Hyperliquid order        *)
(* executors driving them through the synchronous transport.               *)
(***************************************************************************)
EXTENDS Integers, Sequences, FiniteSets, TLC

\* ------------------------------------------------------------------ bounds
MaxTime == 2        \* the steady clock runs over 0..MaxTime
MaxTimeoutMs == 2   \* configured deadlines range over 1..MaxTimeoutMs
MaxTracks == 2      \* number of track_* calls in one behaviour
MaxOrderId == 2     \* OrderIds are 1..MaxOrderId
MaxCapacity == 2    \* token-bucket capacities range over 1..MaxCapacity

OrderIds == 1..MaxOrderId

Threads == {"t1", "t2"}          \* strategy threads calling the executor
Symbols == {"BTC", "XXX"}        \* SymbolIds an Order may carry
Registered == {"BTC"}            \* those the SymbolRegistry has a SymbolInfo for

VARIABLES
  cfg,       \* OrderTimeoutConfig / RateLimitConfig / venue, fixed at construction
  now,       \* std::chrono::steady_clock
  pending,   \* TimeoutOrderTracker::_pending, as a set of PendingOp
  chk,       \* the checker thread: position, captured now, local vector timedOut
  hist,      \* history: one record per entry ever created by track_*
  tokens,    \* RateLimiter: tokens in the bucket
  grants,    \* history: tryAcquire calls answered true since the last clock tick
  orders,    \* OrderTracker: OrderId -> order state (or NoState)
  assetIds,  \* HyperliquidOrderExecutorT::_assetIds (coins with an asset id)
  thr,       \* per strategy thread: position in the executor operation, its locals
  last,      \* history: the call that returned most recently and what it did
  pool,      \* CurlSessionPool: _pool.size() (idle), _totalCreated, config
  stk,       \* per thread: the stack of CurlTransport::postImpl frames it is inside
  conn,      \* one exchange connector and the caller of its start() / stop()
  ws,        \* its IxWebSocketClients, public and private
  book,      \* the last book frame a connector handled and what it published
  ing,       \* the message handlers of a connector: event pool, buses, frames seen
  syms,      \* symbol resolution: registry, connector cache, callers
  life,      \* a TimeoutOrderTracker's construction, start(), stop(), destruction
  mtx,       \* a TimeoutOrderTracker's _mutex: checker, callbacks and callers
  sub,       \* the subscriptions a connector's open handler sends
  priv,      \* Bybit's private websocket: what was received and sent on it
  hl         \* a Hyperliquid executor: asset-id map, its load, the calls of an operation

execVars == <<cfg, now, pending, chk, hist, tokens, grants, orders, assetIds, thr, last>>

transportVars == <<pool, stk>>

connVars == <<conn, ws>>

feedVars == <<ing, syms>>

sessVars == <<sub, priv, hl>>

lifeVars == <<life, mtx, sessVars>>

netVars == <<transportVars, connVars, book, feedVars, lifeVars>>

vars == <<execVars, netVars>>

\* ------------------------------------------------- TimeoutOrderTracker
TimeoutPolicies == {"LOG_ONLY", "REJECT", "CALLBACK", "RECONCILE"}

isValidTimeout(c) ==
  c.submitTimeoutMs > 0 /\ c.cancelTimeoutMs > 0 /\ c.replaceTimeoutMs > 0
    /\ c.checkIntervalMs > 0

getTimeoutMs_AlwaysSubmit(opType) == cfg.submitTimeoutMs

getTimeoutMs(opType) ==
  CASE opType = "SUBMIT"  -> cfg.submitTimeoutMs
    [] opType = "CANCEL"  -> cfg.cancelTimeoutMs
    [] opType = "REPLACE" -> cfg.replaceTimeoutMs
    [] OTHER              -> cfg.submitTimeoutMs

opTypeToString(opType) ==
  CASE opType = "SUBMIT"  -> "submit"
    [] opType = "CANCEL"  -> "cancel"
    [] opType = "REPLACE" -> "replace"
    [] OTHER              -> "unknown"

PendingOp(id, opType, t, g) ==
  [orderId |-> id, opType |-> opType, startTime |-> t, gen |-> g]

EntriesOf(p, id) == {e \in p : e.orderId = id}

\* _pending[orderId] = PendingOp{...} : insert or overwrite the slot of the key
MapAssign_Insert(p, e) == p \cup {e}

MapAssign(p, e) == (p \ EntriesOf(p, e.orderId)) \cup {e}

\* _pending.erase(orderId)
MapErase_All(p, id) == {}

MapErase(p, id) == p \ EntriesOf(p, id)

\* entries the scan of checkTimeouts moves from _pending to timedOut
TimedOut(p, t) == {e \in p : t - e.startTime >= getTimeoutMs(e.opType)}

\* the callbacks the switch on _config.policy invokes for one timed-out op
PolicyCalls(op) ==
  CASE cfg.policy = "LOG_ONLY" -> <<>>
    [] cfg.policy = "REJECT" ->
         IF cfg.hasOnReject
           THEN <<[cb |-> "onReject", id |-> op.orderId,
                   arg |-> opTypeToString(op.opType) \o " timeout"]>>
           ELSE <<>>
    [] cfg.policy = "CALLBACK" ->
         IF cfg.hasOnTimeout
           THEN <<[cb |-> "onTimeout", id |-> op.orderId, arg |-> opTypeToString(op.opType)]>>
           ELSE <<>>
    [] cfg.policy = "RECONCILE" ->
         IF cfg.hasOnTimeout
           THEN <<[cb |-> "onTimeout", id |-> op.orderId, arg |-> opTypeToString(op.opType)]>>
           ELSE <<>>

\* ---- history bookkeeping (what happened to each entry ever created)
NewHist(id, opType) ==
  [orderId |-> id, opType |-> opType,
   cleared |-> 0, replaced |-> FALSE, fired |-> 0, calls |-> <<>>, answered |-> FALSE]

Gens(S) == {e.gen : e \in S}

MarkCleared(h, G) ==
  [g \in DOMAIN h |-> IF g \in G THEN [h[g] EXCEPT !.cleared = @ + 1] ELSE h[g]]

MarkReplaced(h, G) ==
  [g \in DOMAIN h |-> IF g \in G THEN [h[g] EXCEPT !.replaced = TRUE] ELSE h[g]]

NoReply == [transport |-> "none", code |-> "absent", oid |-> "absent"]

\* record of a returned call: what was asked, what tryAcquire answered (acq),
\* whether it consumed a token (took), the onRateLimited calls (rlcb), the entry
\* track_<op> created (gen, 0 for none), whether post() was called (sent), what
\* post() delivered (reply) and the OrderTracker methods invoked (calls); for a
\* direct clearPending, the number of entries it erased (removed); whether the
\* policy action for the entry had fired when the call returned (late)
NoCall ==
  [op |-> "NONE", id |-> 0, sym |-> "none", acq |-> "none", took |-> FALSE,
   rlcb |-> <<>>, slept |-> FALSE, gen |-> 0, sent |-> FALSE, reply |-> NoReply,
   calls |-> <<>>, removed |-> 0, late |-> FALSE]

\* OrderIds are opaque keys: ids no part of the state mentions are
\* interchangeable, so a caller bringing a new id brings the smallest of them
Mentioned(id) ==
  \/ last.id = id
  \/ orders[id].known
  \/ \E t \in Threads : thr[t].id = id
  \/ \E g \in DOMAIN hist : hist[g].orderId = id

Callable(id) == Mentioned(id) \/ \A j \in 1..(id - 1) : Mentioned(j)

\* ---- tracker operations as state changes
\* trackSubmit / trackCancel / trackReplace
DoTrack(id, opType) ==
  LET g == Len(hist) + 1
      p == MapAssign(pending, PendingOp(id, opType, now, g))
  IN /\ pending' = p
     /\ hist' = Append(MarkReplaced(hist, Gens(pending) \ Gens(p)), NewHist(id, opType))

\* clearPending
DoClear(id) ==
  LET p == MapErase(pending, id)
  IN /\ pending' = p
     /\ hist' = MarkCleared(hist, Gens(pending) \ Gens(p))

trackSubmit(id) ==
  /\ Len(hist) < MaxTracks
  /\ Callable(id)
  /\ DoTrack(id, "SUBMIT")
  /\ UNCHANGED <<netVars, cfg, now, chk, tokens, grants, orders, assetIds, thr, last>>

trackCancel(id) ==
  /\ Len(hist) < MaxTracks
  /\ Callable(id)
  /\ DoTrack(id, "CANCEL")
  /\ UNCHANGED <<netVars, cfg, now, chk, tokens, grants, orders, assetIds, thr, last>>

trackReplace(id) ==
  /\ Len(hist) < MaxTracks
  /\ Callable(id)
  /\ DoTrack(id, "REPLACE")
  /\ UNCHANGED <<netVars, cfg, now, chk, tokens, grants, orders, assetIds, thr, last>>

clearPending(id) ==
  /\ Callable(id)
  /\ DoClear(id)
  /\ last' = [NoCall EXCEPT !.op = "CLEAR", !.id = id,
                            !.removed = Cardinality(EntriesOf(pending, id))]
  /\ UNCHANGED <<netVars, cfg, now, chk, tokens, grants, orders, assetIds, thr>>

\* ---- the checker thread: checkTimeouts() in three phases
\* auto now = steady_clock::now();  (taken before the lock)
CheckerBegin ==
  /\ cfg.timeoutOn
  /\ chk.pc = "sleep"
  /\ chk' = [pc |-> "scan", now |-> now, timedOut |-> {}]
  /\ UNCHANGED <<netVars, cfg, now, pending, hist, tokens, grants, orders, assetIds, thr, last>>

\* the loop over _pending under the mutex; with nothing timed out the
\* function returns and the thread sleeps again
CheckerScan_NoErase ==
  /\ chk.pc = "scan"
  /\ LET out == TimedOut(pending, chk.now)
     IN /\ pending' = pending
        /\ chk' = [pc |-> IF out = {} THEN "sleep" ELSE "fire", now |-> 0,
                   timedOut |-> out]
  /\ UNCHANGED <<netVars, cfg, now, hist, tokens, grants, orders, assetIds, thr, last>>

CheckerScan ==
  /\ chk.pc = "scan"
  /\ LET out == TimedOut(pending, chk.now)
     IN /\ pending' = pending \ out
        /\ chk' = [pc |-> IF out = {} THEN "sleep" ELSE "fire", now |-> 0,
                   timedOut |-> out]
  /\ UNCHANGED <<netVars, cfg, now, hist, tokens, grants, orders, assetIds, thr, last>>

\* one iteration of "for (const auto& op : timedOut)" outside the lock; after
\* the last one checkTimeouts returns and the thread sleeps checkIntervalMs
CheckerFire ==
  /\ chk.pc = "fire"
  /\ \E op \in chk.timedOut :
       /\ chk' = [chk EXCEPT !.timedOut = @ \ {op},
                             !.pc = IF chk.timedOut = {op} THEN "sleep" ELSE "fire"]
       /\ hist' = [hist EXCEPT ![op.gen].fired = @ + 1,
                               ![op.gen].calls = @ \o PolicyCalls(op)]
  /\ UNCHANGED <<netVars, cfg, now, pending, tokens, grants, orders, assetIds, thr, last>>

\* ------------------------------------------------------ rate-limit policy
RateLimitPolicies == {"REJECT", "WAIT", "CALLBACK"}

\* an isValid that looks at the capacity alone
isValidRateLimit_CapacityOnly(c) == c.capacity > 0

\* RateLimitConfig::isValid
isValidRateLimit(c) == c.capacity > 0 /\ c.refillRate > 0

\* ActiveRateLimitPolicy::init creates _limiter only for a valid config;
\* NoRateLimitPolicy (rlOn = FALSE) has none
LimiterPresent == cfg.rlOn /\ isValidRateLimit(cfg)

\* flox::RateLimiter (token bucket: initial tokens = capacity, one clock unit
\* refills refillRate tokens, never above capacity)
Refill(tok) == IF tok + cfg.refillRate > cfg.capacity THEN cfg.capacity ELSE tok + cfg.refillRate

limiterTryAcquire(tok) == tok >= 1

timeUntilAvailable(tok) ==
  IF tok >= 1 THEN 0 ELSE ((1 - tok) + cfg.refillRate - 1) \div cfg.refillRate

\* ActiveRateLimitPolicy::tryAcquire up to its return or its sleep_for
tryAcquire_AlwaysTrue(tok, id) ==
  IF ~LimiterPresent
    THEN [res |-> "true", tokens |-> tok, took |-> FALSE, rlcb |-> <<>>, wait |-> 0]
  ELSE IF limiterTryAcquire(tok)
    THEN [res |-> "true", tokens |-> tok - 1, took |-> TRUE, rlcb |-> <<>>, wait |-> 0]
  ELSE [res |-> "true", tokens |-> tok, took |-> FALSE, rlcb |-> <<>>, wait |-> 0]

tryAcquire(tok, id) ==
  IF ~LimiterPresent
    THEN [res |-> "true", tokens |-> tok, took |-> FALSE, rlcb |-> <<>>, wait |-> 0]
  ELSE IF limiterTryAcquire(tok)
    THEN [res |-> "true", tokens |-> tok - 1, took |-> TRUE, rlcb |-> <<>>, wait |-> 0]
  ELSE LET waitTime == timeUntilAvailable(tok)
       IN CASE cfg.rlPolicy = "REJECT" ->
                 [res |-> "false", tokens |-> tok, took |-> FALSE, rlcb |-> <<>>, wait |-> 0]
            [] cfg.rlPolicy = "WAIT" ->
                 [res |-> "sleep", tokens |-> tok, took |-> FALSE, rlcb |-> <<>>,
                  wait |-> waitTime]
            [] cfg.rlPolicy = "CALLBACK" ->
                 [res |-> "false", tokens |-> tok, took |-> FALSE,
                  rlcb |-> IF cfg.hasOnRateLimited
                             THEN <<[id |-> id, wait |-> waitTime]>> ELSE <<>>,
                  wait |-> 0]

\* ----------------------------------------------------------- the executors
Venues == {"Bybit", "Bitget", "Hyperliquid"}

NoState == [known |-> FALSE, symbol |-> "none", cloid |-> FALSE]

\* what post() can deliver: "error" goes to onError (no pooled handle, a curl
\* error or a non-2xx status), "ok" (2xx) goes to onSuccess with a body in which
\* the venue code is success / failure / unreadable and the exchange order id
\* is a string / a number / absent. A field the continuation of (venue, op)
\* never reads is left "absent".
ReadsCode(venue, op) == ~(venue = "Hyperliquid" /\ op = "SUBMIT")

ReadsOid(venue, op) == op = "SUBMIT" \/ (venue = "Bitget" /\ op = "REPLACE")

Replies(venue, op) ==
  {[transport |-> "error", code |-> "absent", oid |-> "absent"]}
    \cup [transport : {"ok"},
          code : IF ReadsCode(venue, op) THEN {"ok", "fail", "absent"} ELSE {"absent"},
          oid : IF ReadsOid(venue, op) THEN {"string", "number", "absent"} ELSE {"absent"}]

IdleThread == [pc |-> "idle", op |-> "NONE", id |-> 0, sym |-> "none", wakeAt |-> 0, gen |-> 0]

DoneThread == [IdleThread EXCEPT !.pc = "done"]

Returned(t, acq, sent, r, c) ==
  [NoCall EXCEPT !.op = thr[t].op, !.id = thr[t].id, !.sym = thr[t].sym,
                 !.acq = acq, !.gen = thr[t].gen, !.sent = sent, !.reply = r,
                 !.calls = c,
                 !.late = thr[t].gen # 0 /\ hist[thr[t].gen].fired > 0]

\* the checks between tryAcquire and track_<op>: registry / tracker lookups,
\* for Hyperliquid also assetIdFor and hl_sign_with_sdk
LookupOk_SkipRegistry(venue, op, id, sym, sigOk) ==
  CASE venue = "Hyperliquid" /\ op = "SUBMIT" -> sym \in assetIds /\ sigOk
    [] venue = "Hyperliquid" /\ op = "CANCEL" ->
         orders[id].known /\ orders[id].cloid /\ orders[id].symbol \in assetIds /\ sigOk
    [] venue = "Hyperliquid" /\ op = "REPLACE" -> orders[id].known /\ sym \in assetIds /\ sigOk
    [] venue # "Hyperliquid" /\ op = "SUBMIT" -> TRUE
    [] OTHER -> orders[id].known

LookupOk(venue, op, id, sym, sigOk) ==
  CASE venue = "Bybit" /\ op = "SUBMIT" -> sym \in Registered
    [] venue = "Bybit" /\ op = "CANCEL" ->
         orders[id].known /\ orders[id].symbol \in Registered
    [] venue = "Bybit" /\ op = "REPLACE" -> sym \in Registered /\ orders[id].known
    [] venue = "Bitget" /\ op = "SUBMIT" -> sym \in Registered
    [] venue = "Bitget" /\ op = "CANCEL" ->
         orders[id].known /\ orders[id].symbol \in Registered
    [] venue = "Bitget" /\ op = "REPLACE" ->
         orders[id].known /\ orders[id].symbol \in Registered
    [] venue = "Hyperliquid" /\ op = "SUBMIT" ->
         sym \in Registered /\ sym \in assetIds /\ sigOk
    [] venue = "Hyperliquid" /\ op = "CANCEL" ->
         /\ orders[id].known /\ orders[id].cloid
         /\ orders[id].symbol \in Registered /\ orders[id].symbol \in assetIds
         /\ sigOk
    [] venue = "Hyperliquid" /\ op = "REPLACE" ->
         orders[id].known /\ sym \in Registered /\ sym \in assetIds /\ sigOk

\* the OrderTracker methods the success continuation invokes for a 2xx body
\* (a .value() on an unreadable or missing field throws before any call)
SuccessCalls(venue, op, r) ==
  CASE venue = "Bybit" /\ op = "SUBMIT" ->
         IF r.code = "ok" /\ r.oid = "string" THEN <<"onSubmitted">> ELSE <<>>
    [] venue = "Bybit" /\ op = "CANCEL" ->
         IF r.code = "ok" THEN <<"onCanceled">> ELSE <<>>
    [] venue = "Bybit" /\ op = "REPLACE" ->
         IF r.code = "ok" THEN <<"onReplaced">> ELSE <<>>
    [] venue = "Bitget" /\ op = "SUBMIT" ->
         IF r.code = "ok" /\ r.oid = "string" THEN <<"onSubmitted">> ELSE <<>>
    [] venue = "Bitget" /\ op = "CANCEL" ->
         IF r.code = "ok" THEN <<"onCanceled">> ELSE <<>>
    [] venue = "Bitget" /\ op = "REPLACE" ->
         IF r.code = "ok" /\ r.oid # "absent" THEN <<"onReplaced">> ELSE <<>>
    [] venue = "Hyperliquid" /\ op = "SUBMIT" -> <<"onSubmitted">>
    [] venue = "Hyperliquid" /\ op = "CANCEL" ->
         IF r.code = "ok" THEN <<"onCanceled">> ELSE <<>>
    [] venue = "Hyperliquid" /\ op = "REPLACE" ->
         IF r.code = "ok" THEN <<"onReplaced">> ELSE <<>>

\* ActiveTimeoutPolicy forwards to the tracker when it has one
\* (NoTimeoutPolicy and an invalid config: no-ops)
PolicyTrack(id, opType) ==
  IF cfg.timeoutOn THEN DoTrack(id, opType) ELSE UNCHANGED <<pending, hist>>

\* the first statement of both continuations of thread t's post()
MarkAnswered(h, g) ==
  [k \in DOMAIN h |-> IF k = g THEN [h[k] EXCEPT !.answered = TRUE] ELSE h[k]]

PolicyClear_OnlySuccess(t, r) ==
  IF cfg.timeoutOn
    THEN LET p == IF r.transport = "ok" THEN MapErase(pending, thr[t].id) ELSE pending
         IN /\ pending' = p
            /\ hist' = MarkAnswered(MarkCleared(hist, Gens(pending) \ Gens(p)), thr[t].gen)
    ELSE UNCHANGED <<pending, hist>>

\* a clearPending that erases only the entry its own operation created
PolicyClear_OwnEntry(t, r) ==
  IF cfg.timeoutOn
    THEN LET p == {e \in pending : e.gen # thr[t].gen}
         IN /\ pending' = p
            /\ hist' = MarkAnswered(MarkCleared(hist, Gens(pending) \ Gens(p)), thr[t].gen)
    ELSE UNCHANGED <<pending, hist>>

PolicyClear(t, r) ==
  IF cfg.timeoutOn
    THEN LET p == MapErase(pending, thr[t].id)
         IN /\ pending' = p
            /\ hist' = MarkAnswered(MarkCleared(hist, Gens(pending) \ Gens(p)), thr[t].gen)
    ELSE UNCHANGED <<pending, hist>>

\* rateLimit.tryAcquire(id) at the head of an operation; okPc is where the
\* caller continues when it returns true ("done" / "abort": it returns at once)
Acquire(t, op, id, sym, okPc) ==
  LET a == tryAcquire(tokens, id)
      rec == [NoCall EXCEPT !.op = op, !.id = id, !.sym = sym, !.acq = a.res,
                            !.took = a.took, !.rlcb = a.rlcb]
      fin == a.res = "false" \/ (a.res = "true" /\ okPc \in {"done", "abort"})
  IN /\ tokens' = a.tokens
     /\ grants' = IF a.res = "true" THEN grants + 1 ELSE grants
     /\ thr' = [thr EXCEPT ![t] =
                  IF fin THEN DoneThread
                  ELSE [IdleThread EXCEPT
                          !.pc = IF a.res = "sleep" THEN "waiting" ELSE okPc,
                          !.op = op, !.id = id, !.sym = sym,
                          !.wakeAt = now + a.wait]]
     /\ last' = IF fin THEN rec ELSE last

\* WAIT: sleep_for(waitTime) is over; (void)_limiter->tryAcquire(); return true
WaitOver(t, okPc) ==
  /\ thr[t].pc = "waiting"
  /\ now >= thr[t].wakeAt
  /\ tokens' = IF limiterTryAcquire(tokens) THEN tokens - 1 ELSE tokens
  /\ grants' = grants + 1
  /\ thr' = [thr EXCEPT ![t] = IF okPc \in {"done", "abort"} THEN DoneThread
                               ELSE [thr[t] EXCEPT !.pc = okPc, !.wakeAt = 0]]
  /\ last' = IF okPc \in {"done", "abort"}
               THEN [NoCall EXCEPT !.op = thr[t].op, !.id = thr[t].id, !.sym = thr[t].sym,
                                   !.acq = "true", !.slept = TRUE,
                                   !.took = limiterTryAcquire(tokens)]
               ELSE last

\* where an operation goes after tryAcquire returned true: the lookups of
\* symbol info, order state, asset id and signature; any miss logs and returns
AfterAcquire(op, id, sym, sigOk) ==
  IF LookupOk(cfg.venue, op, id, sym, sigOk) THEN "track" ELSE "abort"

\* submitOrder / cancelOrder / replaceOrder is entered and runs up to its
\* first return or to track_<op>. Each strategy thread makes one call; the
\* threads are numbered in the order they enter.
Begin(t, op, id, sym) ==
  /\ thr[t].pc = "idle"
  /\ t = "t2" => thr["t1"].pc # "idle"
  /\ Callable(id)
  /\ \E sigOk \in BOOLEAN : Acquire(t, op, id, sym, AfterAcquire(op, id, sym, sigOk))
  /\ UNCHANGED <<netVars, cfg, now, pending, chk, hist, orders, assetIds>>

WaitDone(t) ==
  /\ thr[t].op # "NONE"
  /\ \E sigOk \in BOOLEAN :
       WaitOver(t, AfterAcquire(thr[t].op, thr[t].id, thr[t].sym, sigOk))
  /\ UNCHANGED <<netVars, cfg, now, pending, chk, hist, orders, assetIds>>

\* ActiveRateLimitPolicy::tryAcquire called on its own, any number of times
tryAcquireCall(t, id) ==
  /\ thr[t].pc \in {"idle", "done"}
  /\ Callable(id)
  /\ Acquire(t, "NONE", id, "none", "done")
  /\ UNCHANGED <<netVars, cfg, now, pending, chk, hist, orders, assetIds>>

tryAcquireWake(t) ==
  /\ thr[t].op = "NONE"
  /\ WaitOver(t, "done")
  /\ UNCHANGED <<netVars, cfg, now, pending, chk, hist, orders, assetIds>>

\* _policies.timeout.track<Op>(id)
Track(t) ==
  /\ thr[t].pc = "track"
  /\ PolicyTrack(thr[t].id, thr[t].op)
  /\ thr' = [thr EXCEPT ![t].pc = "post",
                        ![t].gen = IF cfg.timeoutOn THEN Len(hist) + 1 ELSE 0]
  /\ UNCHANGED <<netVars, cfg, now, chk, tokens, grants, orders, assetIds, last>>

\* _client->post(...) / _transport->post(...): the request leaves
Dispatch(t) ==
  /\ thr[t].pc = "post"
  /\ thr' = [thr EXCEPT ![t].pc = "inflight"]
  /\ UNCHANGED <<netVars, cfg, now, pending, chk, hist, tokens, grants, orders, assetIds, last>>

\* a transport that drops the continuation of an operation that has timed out
Continuation_UnlessTimedOut(t) ==
  /\ thr[t].pc = "inflight"
  /\ \E r \in Replies(cfg.venue, thr[t].op) :
       LET fired == thr[t].gen # 0 /\ hist[thr[t].gen].fired > 0
           c == IF r.transport = "ok" /\ ~fired
                  THEN SuccessCalls(cfg.venue, thr[t].op, r) ELSE <<>>
       IN /\ IF fired THEN UNCHANGED <<pending, hist>> ELSE PolicyClear(t, r)
          /\ thr' = [thr EXCEPT ![t] = DoneThread]
          /\ last' = Returned(t, "true", TRUE, r, c)
          /\ orders' = IF \E i \in 1..Len(c) : c[i] = "onSubmitted"
                         THEN [orders EXCEPT ![thr[t].id] =
                                 [known |-> TRUE, symbol |-> thr[t].sym,
                                  cloid |-> cfg.venue = "Hyperliquid"]]
                         ELSE orders
  /\ UNCHANGED <<netVars, cfg, now, chk, tokens, grants, assetIds>>

\* post() invokes onSuccess or onError on the calling thread: both start with
\* clearPending(id); onSuccess then parses the body and updates the OrderTracker
Continuation(t) ==
  /\ thr[t].pc = "inflight"
  /\ \E r \in Replies(cfg.venue, thr[t].op) :
       LET c == IF r.transport = "ok" THEN SuccessCalls(cfg.venue, thr[t].op, r) ELSE <<>>
       IN /\ PolicyClear(t, r)
          /\ thr' = [thr EXCEPT ![t] = DoneThread]
          /\ last' = Returned(t, "true", TRUE, r, c)
          /\ orders' = IF \E i \in 1..Len(c) : c[i] = "onSubmitted"
                         THEN [orders EXCEPT ![thr[t].id] =
                                 [known |-> TRUE, symbol |-> thr[t].sym,
                                  cloid |-> cfg.venue = "Hyperliquid"]]
                         ELSE orders
  /\ UNCHANGED <<netVars, cfg, now, chk, tokens, grants, assetIds>>

\* the steady clock advances; the bucket refills with it
Tick ==
  /\ now < MaxTime
  /\ now' = now + 1
  /\ tokens' = IF LimiterPresent THEN Refill(tokens) ELSE tokens
  /\ grants' = 0
  /\ UNCHANGED <<netVars, cfg, pending, chk, hist, orders, assetIds, thr, last>>

\* ------------------------------------------------------------ CurlSessionPool
MaxPoolSize == 2    \* CurlSessionPoolConfig.maxSize ranges over 1..MaxPoolSize

\* CurlSessionPoolConfig::isValid
isValidPool(c) == c.initialSize > 0 /\ c.maxSize >= c.initialSize /\ c.acquireTimeoutMs > 0

PoolConfigs ==
  {c \in [initialSize : 0..MaxPoolSize, maxSize : 1..MaxPoolSize,
          acquireTimeoutMs : 1..MaxTimeoutMs] : isValidPool(c)}

\* CurlSessionPool(const CurlSessionPoolConfig&): initialSize handles, all idle
NewPool(c) ==
  [idle |-> c.initialSize, total |-> c.initialSize, maxSize |-> c.maxSize,
   acquireTimeoutMs |-> c.acquireTimeoutMs]

\* the loop condition of acquire(): no idle handle and no room for a new one
MustWait(p) == p.idle = 0 /\ p.total >= p.maxSize

\* acquire() past its wait loop: pop an idle handle, else create one while
\* _totalCreated < _maxSize (curl_easy_init may fail), else nullptr
AfterWait(p, initOk) ==
  IF p.idle > 0
    THEN [p |-> [p EXCEPT !.idle = @ - 1], h |-> "handle"]
    ELSE IF p.total < p.maxSize
      THEN IF initOk THEN [p |-> [p EXCEPT !.total = @ + 1], h |-> "handle"]
                     ELSE [p |-> p, h |-> "null"]
      ELSE [p |-> p, h |-> "null"]

\* release() of a non-null handle that destroys it whatever _pool holds
poolRelease_AlwaysDestroy(p) == [p EXCEPT !.total = @ - 1]

\* release() of a non-null handle: back into _pool while _pool.size() < _maxSize,
\* else curl_easy_cleanup and --_totalCreated
poolRelease(p) ==
  IF p.idle < p.maxSize THEN [p EXCEPT !.idle = @ + 1]
                        ELSE [p EXCEPT !.total = @ - 1]

\* ------------------------------------------------------------ CurlTransport
CurlResults == {"curlError", "http", "ok"}   \* CURLE_* error, non-2xx, 2xx

\* a postImpl frame: where it is, whether it owns a pooled handle, how the
\* request ended, the continuations it has invoked; deadline is acquire()'s
\* while it waits, early / passed record how that wait went
NoFrame ==
  [pc |-> "none", held |-> FALSE, out |-> "none", cbs |-> <<>>,
   deadline |-> 0, early |-> FALSE, passed |-> FALSE]

Top(t) == stk[t][Len(stk[t])]

SetTop(t, f) == [stk EXCEPT ![t] = [@ EXCEPT ![Len(@)] = f]]

InState(t, pc) == stk[t] # <<>> /\ Top(t).pc = pc

Frames == UNION {{stk[t][i] : i \in 1..Len(stk[t])} : t \in Threads}

\* what postImpl hands to the caller's continuations, non-2xx reported to nobody
Continuations_SilentHttp(out) ==
  IF out = "ok" THEN <<"onSuccess">> ELSE IF out = "http" THEN <<>> ELSE <<"onError">>

\* what postImpl hands to the caller's continuations (both are set)
Continuations(out) == IF out = "ok" THEN <<"onSuccess">> ELSE <<"onError">>

\* the frame postImpl is in once acquire() has returned h: with a handle it
\* goes on to the request, with nullptr straight to the error continuation
Acquired(f, h) ==
  IF h = "handle"
    THEN [f EXCEPT !.pc = "perform", !.held = TRUE, !.deadline = 0, !.passed = FALSE]
    ELSE [f EXCEPT !.pc = "released", !.out = "noHandle", !.deadline = 0]

\* a released handle passes a sole blocked acquirer whose deadline is still ahead
Passing(s, t) ==
  [u \in Threads |->
     IF /\ u # t /\ s[u] # <<>> /\ s[u][Len(s[u])].pc = "waiting"
        /\ now < s[u][Len(s[u])].deadline
        /\ \A v \in Threads \ {t, u} : ~(s[v] # <<>> /\ s[v][Len(s[v])].pc = "waiting")
       THEN [s[u] EXCEPT ![Len(s[u])].passed = TRUE]
       ELSE s[u]]

\* post / postWithTimeout: postImpl up to the first pass of acquire()'s loop
post(t, initOk) ==
  /\ Len(stk[t]) <= 1
  /\ stk[t] # <<>> => Top(t).pc = "cont"
  /\ IF MustWait(pool)
       THEN /\ stk' = [stk EXCEPT ![t] = Append(@, [NoFrame EXCEPT
                         !.pc = "waiting",
                         !.deadline = now + pool.acquireTimeoutMs])]
            /\ pool' = pool
       ELSE LET r == AfterWait(pool, initOk)
            IN /\ pool' = r.p
               /\ stk' = [stk EXCEPT ![t] = Append(@, Acquired(NoFrame, r.h))]
  /\ UNCHANGED <<execVars, feedVars, lifeVars, connVars, book>>

\* acquire(): wait_until returned no_timeout and the loop condition is false
acquireWake(t, initOk) ==
  /\ InState(t, "waiting")
  /\ ~MustWait(pool)
  /\ LET r == AfterWait(pool, initOk)
     IN /\ pool' = r.p
        /\ stk' = SetTop(t, Acquired(Top(t), r.h))
  /\ UNCHANGED <<execVars, feedVars, lifeVars, connVars, book>>

\* acquire() giving up without regard to its deadline
acquireTimeout_NoDeadline(t) ==
  /\ InState(t, "waiting")
  /\ stk' = SetTop(t, [Acquired(Top(t), "null") EXCEPT
                         !.out = "timeout", !.early = now < Top(t).deadline])
  /\ UNCHANGED <<execVars, feedVars, lifeVars, connVars, book, pool>>

\* acquire(): wait_until returned timeout, nullptr without a look at _pool
acquireTimeout(t) ==
  /\ InState(t, "waiting")
  /\ now >= Top(t).deadline
  /\ stk' = SetTop(t, [Acquired(Top(t), "null") EXCEPT
                         !.out = "timeout", !.early = now < Top(t).deadline])
  /\ UNCHANGED <<execVars, feedVars, lifeVars, connVars, book, pool>>

\* the pooled handles the frames of thread t own
Held(t) == Cardinality({i \in 1..Len(stk[t]) : stk[t][i].held})

\* postImpl that keeps the handle while the continuation runs
perform_KeepHandle(t, res) ==
  /\ InState(t, "perform")
  /\ stk' = SetTop(t, [Top(t) EXCEPT !.pc = "released", !.out = res])
  /\ UNCHANGED <<execVars, feedVars, lifeVars, connVars, book, pool>>

\* postImpl that hands the handle back only after a 2xx reply
perform_ReleaseOnSuccess(t, res) ==
  /\ InState(t, "perform")
  /\ pool' = IF res = "ok" THEN poolRelease(pool) ELSE pool
  /\ stk' = Passing(SetTop(t, [Top(t) EXCEPT !.pc = "released", !.held = (res # "ok"),
                                             !.out = res]), t)
  /\ UNCHANGED <<execVars, feedVars, lifeVars, connVars, book>>

\* postImpl: curl_easy_perform, then _pool.release(h)
perform(t, res) ==
  /\ InState(t, "perform")
  /\ pool' = poolRelease(pool)
  /\ stk' = Passing(SetTop(t, [Top(t) EXCEPT !.pc = "released", !.held = FALSE,
                                             !.out = res]), t)
  /\ UNCHANGED <<execVars, feedVars, lifeVars, connVars, book>>

\* postImpl: the continuation chosen by the outcome is entered
invoke(t) ==
  /\ InState(t, "released")
  /\ stk' = SetTop(t, [Top(t) EXCEPT !.pc = "cont", !.cbs = @ \o Continuations(Top(t).out)])
  /\ UNCHANGED <<execVars, feedVars, lifeVars, connVars, book, pool>>

\* the continuation returns, and postImpl with it
postReturn(t) ==
  /\ InState(t, "cont")
  /\ stk' = [stk EXCEPT ![t] = SubSeq(@, 1, Len(@) - 1)]
  /\ UNCHANGED <<execVars, feedVars, lifeVars, connVars, book, pool>>

\* ------------------------------------------------------------ IxWebSocketClient
MaxCalls == 4       \* start() / stop() calls made on one connector instance

WsNames == {"pub", "priv"}        \* _wsClient / _wsMarket, _wsClientPrivate

\* an IxWebSocketClient: _running, where its worker thread is in run(), whether
\* _thread is joinable, the state of the ix::WebSocket; stopped / late record
\* that stop() was called and that _ws.start() ran after it. exists is FALSE
\* for a null unique_ptr.
NoClient ==
  [exists |-> FALSE, running |-> FALSE, th |-> "none", joinable |-> FALSE,
   sock |-> "closed", stopped |-> FALSE, late |-> FALSE]

NewClient == [NoClient EXCEPT !.exists = TRUE]

\* IxWebSocketClient::start assigns a new std::thread to _thread: std::terminate
\* when the previous one was never joined
StartTerminates(c) == ~c.running /\ c.joinable

\* IxWebSocketClient::start
clientStart(c) ==
  IF c.running THEN c ELSE [c EXCEPT !.running = TRUE, !.th = "loop", !.joinable = TRUE]

\* IxWebSocketClient::stop: _running = false; _ws.stop()
clientStop(c) == [c EXCEPT !.running = FALSE, !.sock = "closed", !.stopped = TRUE]

Alive == conn.crashed = "no"

\* run(): the test of the outer while
wsLoop(n) ==
  /\ Alive /\ ws[n].th = "loop"
  /\ ws' = [ws EXCEPT ![n].th = IF ws[n].running THEN "starting" ELSE "exited"]
  /\ UNCHANGED <<execVars, feedVars, lifeVars, transportVars, conn, book>>

\* run(): the socket is configured and _ws.start() called
wsStartSocket(n) ==
  /\ Alive /\ ws[n].th = "starting"
  /\ ws' = [ws EXCEPT ![n].th = "inner", ![n].sock = "open",
                      ![n].late = @ \/ ws[n].stopped]
  /\ UNCHANGED <<execVars, feedVars, lifeVars, transportVars, conn, book>>

\* a worker that leaves the inner while only when _running is false
wsInnerExit_OnlyOnStop(n) ==
  /\ Alive /\ ws[n].th = "inner"
  /\ ~ws[n].running
  /\ ws' = [ws EXCEPT ![n].th = "loop"]
  /\ UNCHANGED <<execVars, feedVars, lifeVars, transportVars, conn, book>>

\* run(): the inner while ends (socket not Open, or _running false), the
\* worker sleeps _reconnectDelayMs and is back at the outer test
wsInnerExit(n) ==
  /\ Alive /\ ws[n].th = "inner"
  /\ ws[n].sock # "open" \/ ~ws[n].running
  /\ ws' = [ws EXCEPT ![n].th = "loop"]
  /\ UNCHANGED <<execVars, feedVars, lifeVars, transportVars, conn, book>>

\* the connection is lost while the ix::WebSocket stays started
wsDrop(n) ==
  /\ Alive /\ ws[n].sock = "open" /\ ws[n].running
  /\ ws' = [ws EXCEPT ![n].sock = "down"]
  /\ UNCHANGED <<execVars, feedVars, lifeVars, transportVars, conn, book>>

\* ------------------------------------------------------------ exchange connectors
ConnVenues == {"Bybit", "Bitget", "Hyperliquid", "Polymarket"}

\* the connector creates its public client in the constructor
ClientInCtor(venue) == venue # "Polymarket"

\* start() tests _config.isValid()
ChecksConfig(venue) == venue # "Hyperliquid"

HasPing(venue) == venue \in {"Bitget", "Hyperliquid"}

\* stop() resets the unique_ptr after stopping the client
DropsClient(venue) == venue # "Hyperliquid"

HasPrivate(venue) == venue \in {"Bybit", "Bitget"}

\* a connector: its config, _running, the ping thread, where its caller is
\* inside stop(), the calls made so far; crashed is how the process died,
\* stoppedOnce records a stop() that found the connector running, and pinged
\* what the client was when the ping thread last sent on it (the connector
\* running, stop() waiting in join, the client stopped or released)
NoConn ==
  [venue |-> "Bybit", valid |-> TRUE, wired |-> TRUE, priv |-> FALSE, running |-> FALSE,
   ping |-> "none", pc |-> "idle", at |-> "pub", calls |-> <<>>, crashed |-> "no",
   stoppedOnce |-> FALSE, pinged |-> "no"]

\* _running.exchange(true) that never reports a running connector
AlreadyRunning_Never(c) == FALSE

\* _running.exchange(true) in start(): the previous value
AlreadyRunning(c) == c.running

\* _running.exchange(false) in stop(): the previous value
WasRunning(c) == c.running

\* start() returns at once: the config test of Bybit, Bitget and Polymarket
Refuses(c) == ChecksConfig(c.venue) /\ ~c.valid

\* start() past the exchange on _running: handlers, client and threads
Launch(c, outcome) ==
  LET r == [c EXCEPT !.running = TRUE]
  IN CASE c.venue = "Hyperliquid" ->
            IF ~c.wired
              THEN conn' = r /\ ws' = ws
              ELSE IF StartTerminates(ws["pub"])
                THEN conn' = [r EXCEPT !.crashed = "terminate"] /\ ws' = ws
                ELSE /\ conn' = [r EXCEPT !.ping = "run"]
                     /\ ws' = [ws EXCEPT !["pub"] = clientStart(@)]
       [] c.venue = "Polymarket" ->
            /\ conn' = r
            /\ ws' = [ws EXCEPT !["pub"] = clientStart(NewClient)]
       [] OTHER ->
            IF ~ws["pub"].exists
              THEN \* _wsClient is null: the calls through it are undefined
                   conn' = [r EXCEPT !.crashed = outcome] /\ ws' = ws
              ELSE IF c.venue = "Bitget" /\ c.ping # "none"
                THEN /\ conn' = [r EXCEPT !.crashed = "terminate"]
                     /\ ws' = [ws EXCEPT !["pub"] = clientStart(@)]
                ELSE /\ conn' = [r EXCEPT !.ping = IF c.venue = "Bitget" THEN "run" ELSE @]
                     /\ ws' = [ws EXCEPT !["pub"] = clientStart(@),
                                         !["priv"] = IF c.priv THEN clientStart(NewClient) ELSE @]

\* <Venue>ExchangeConnector::start
connStart(outcome) ==
  /\ Alive /\ conn.pc = "idle" /\ Len(conn.calls) < MaxCalls
  /\ LET c == [conn EXCEPT !.calls = Append(@, "start")]
     IN IF Refuses(conn) \/ AlreadyRunning(conn)
          THEN conn' = c /\ ws' = ws
          ELSE Launch(c, outcome)
  /\ UNCHANGED <<execVars, feedVars, lifeVars, transportVars, book>>

\* the step of stop() after the public client has been dealt with
AfterPub(c) ==
  IF HasPrivate(c.venue) THEN [c EXCEPT !.pc = "stop", !.at = "priv"]
                         ELSE [c EXCEPT !.pc = "idle", !.at = "pub"]

AfterClient(c) == IF c.at = "pub" THEN AfterPub(c) ELSE [c EXCEPT !.pc = "idle", !.at = "pub"]

\* a stop() that goes on to the clients without joining the ping thread
connStop_NoJoin ==
  /\ Alive /\ conn.pc = "idle" /\ Len(conn.calls) < MaxCalls
  /\ LET c == [conn EXCEPT !.calls = Append(@, "stop")]
     IN conn' = IF ~WasRunning(conn) THEN c
                ELSE [c EXCEPT !.running = FALSE, !.stoppedOnce = TRUE, !.pc = "stop"]
  /\ UNCHANGED <<execVars, feedVars, lifeVars, transportVars, ws, book>>

\* <Venue>ExchangeConnector::stop up to the exchange on _running
connStop ==
  /\ Alive /\ conn.pc = "idle" /\ Len(conn.calls) < MaxCalls
  /\ LET c == [conn EXCEPT !.calls = Append(@, "stop")]
     IN conn' = IF ~WasRunning(conn) THEN c
                ELSE [c EXCEPT !.running = FALSE, !.stoppedOnce = TRUE,
                               !.pc = IF HasPing(conn.venue) THEN "join_ping" ELSE "stop"]
  /\ UNCHANGED <<execVars, feedVars, lifeVars, transportVars, ws, book>>

\* stop(): if (_pingThread.joinable()) _pingThread.join()
stopJoinPing ==
  /\ Alive /\ conn.pc = "join_ping"
  /\ conn.ping \in {"none", "exited"}
  /\ conn' = [conn EXCEPT !.ping = "none", !.pc = "stop"]
  /\ UNCHANGED <<execVars, feedVars, lifeVars, transportVars, ws, book>>

\* stop(): if (client) client->stop(), and Hyperliquid leaves it at that
stopClient ==
  /\ Alive /\ conn.pc = "stop"
  /\ IF ws[conn.at].exists
       THEN /\ ws' = [ws EXCEPT ![conn.at] = clientStop(@)]
            /\ conn' = IF DropsClient(conn.venue) THEN [conn EXCEPT !.pc = "dtor"]
                                                  ELSE AfterClient(conn)
       ELSE ws' = ws /\ conn' = AfterClient(conn)
  /\ UNCHANGED <<execVars, feedVars, lifeVars, transportVars, book>>

\* client.reset(): ~IxWebSocketClient calls stop()
dtorStop ==
  /\ Alive /\ conn.pc = "dtor"
  /\ ws' = [ws EXCEPT ![conn.at] = clientStop(@)]
  /\ conn' = [conn EXCEPT !.pc = "join"]
  /\ UNCHANGED <<execVars, feedVars, lifeVars, transportVars, book>>

\* client.reset(): ~IxWebSocketClient joins _thread, the members are destroyed
dtorJoin ==
  /\ Alive /\ conn.pc = "join"
  /\ ws[conn.at].joinable => ws[conn.at].th = "exited"
  /\ ws' = [ws EXCEPT ![conn.at] = NoClient]
  /\ conn' = AfterClient(conn)
  /\ UNCHANGED <<execVars, feedVars, lifeVars, transportVars, book>>

\* pingLoop(): the test of while (_running.load()) finds it true
pingTest ==
  /\ Alive /\ conn.ping = "run" /\ conn.running
  /\ conn' = [conn EXCEPT !.ping = "send"]
  /\ UNCHANGED <<execVars, feedVars, lifeVars, transportVars, ws, book>>

\* pingLoop(): if (_wsClient) _wsClient->send(ping), then the sleep in chunks
\* of 100 ms, each after a test of _running
pingSend ==
  /\ Alive /\ conn.ping = "send"
  /\ conn' = [conn EXCEPT !.ping = "run",
                          !.pinged = IF ~ws["pub"].exists \/ ws["pub"].stopped THEN "stale"
                                     ELSE IF conn.running THEN "running" ELSE "stopping"]
  /\ UNCHANGED <<execVars, feedVars, lifeVars, transportVars, ws, book>>

\* pingLoop(): every loop ends once _running is false
pingExit ==
  /\ Alive /\ conn.ping = "run" /\ ~conn.running
  /\ conn' = [conn EXCEPT !.ping = "exited"]
  /\ UNCHANGED <<execVars, feedVars, lifeVars, transportVars, ws, book>>

\* ------------------------------------------------------------ book frames
MaxLevels == 2      \* levels per side of one book frame

\* a level of a frame: both numbers positive, a zero size, or text that is
\* no number
RowKinds == {"ok", "zero", "bad"}

\* a side of a frame: the key is absent, or an array of up to MaxLevels levels
Absent == [present |-> FALSE, rows |-> <<>>]

SideInputs ==
  {Absent} \cup {[present |-> TRUE, rows |-> r] : r \in UNION {[1..k -> RowKinds] : k \in 0..MaxLevels}}

\* the level test of each handler: Bybit emplaces what strtod returns,
\* Bitget and Hyperliquid skip what safeParseDouble rejects, Polymarket keeps
\* price > 0 && size > 0
Accepts(venue, row) ==
  CASE venue = "Bybit" -> TRUE
    [] venue = "Polymarket" -> row = "ok"
    [] OTHER -> row # "bad"

\* the levels one side of the frame leaves in ev->update
ParseSide(venue, side) ==
  IF ~side.present THEN <<>> ELSE SelectSeq(side.rows, LAMBDA r : Accepts(venue, r))

\* the test in front of _bookUpdateBus->publish: Polymarket has none
Publishes(venue, bids, asks) ==
  IF venue = "Polymarket" THEN TRUE ELSE bids # <<>> \/ asks # <<>>

NoBook ==
  [venue |-> "none", bidsIn |-> Absent, asksIn |-> Absent, published |-> FALSE,
   bids |-> <<>>, asks |-> <<>>]

\* handleMessage / processBookSnapshot on one book frame; poolOk is whether
\* _bookPool.acquire() gave an event. The handlers keep nothing from one frame
\* to the next, so a behaviour handles one frame.
handleBook(venue, poolOk, bidsIn, asksIn) ==
  /\ book = NoBook
  /\ LET b == ParseSide(venue, bidsIn)
         a == ParseSide(venue, asksIn)
     IN book' = [venue |-> venue, bidsIn |-> bidsIn, asksIn |-> asksIn,
                 published |-> poolOk /\ Publishes(venue, b, a),
                 bids |-> IF poolOk THEN b ELSE <<>>,
                 asks |-> IF poolOk THEN a ELSE <<>>]
  /\ UNCHANGED <<execVars, feedVars, lifeVars, transportVars, connVars>>

\* the state of everything outside the order executors before any use
TransportIdle ==
  /\ pool = NewPool([initialSize |-> 1, maxSize |-> 1, acquireTimeoutMs |-> 1])
  /\ stk = [t \in Threads |-> <<>>]

ConnIdle ==
  /\ conn = NoConn
  /\ ws = [n \in WsNames |-> NoClient]

\* ------------------------------------------------------------ message handlers
MaxFrames == 2      \* frames one websocket connection delivers in a behaviour
MaxSlots == 1       \* capacity of the connector's BookUpdateEvent pool

\* what a text frame is: a book, public-trade or private order message, text
\* that is no JSON, JSON of an unknown channel or without the required keys,
\* the text "pong"
FrameKinds == {"book", "trade", "order", "malformed", "unknown", "pong"}

\* an entry of a data frame (a level, a trade, an order): well-formed, a
\* number that does not parse, a required key missing
EntryKinds == {"ok", "badnum", "missing"}

EntryLists == UNION {[1..k -> EntryKinds] : k \in 0..MaxLevels}

\* the handler has a branch for the frame: only Bybit and Bitget install a
\* private handler
Handles(venue, kind) ==
  \/ kind \in {"book", "trade"}
  \/ kind = "order" /\ HasPrivate(venue)

\* what the handler does with one entry: Bybit takes whatever strtod returns
\* and throws through .value() on a missing key, Bitget skips what
\* safeParseDouble rejects and throws on a missing key, Hyperliquid and
\* Polymarket skip both
EntryResult(venue, kind) ==
  CASE kind = "ok" -> "emit"
    [] kind = "badnum" -> IF venue = "Bybit" THEN "emit" ELSE "skip"
    [] OTHER -> IF venue \in {"Bybit", "Bitget"} THEN "throw" ELSE "skip"

\* the first entry whose handling throws, Len(es) + 1 if none does
FirstThrow(venue, es) ==
  LET T == {i \in 1..Len(es) : EntryResult(venue, es[i]) = "throw"}
  IN IF T = {} THEN Len(es) + 1 ELSE CHOOSE i \in T : \A j \in T : i <= j

\* the entries handled before the loop ends, in order, that yield something
Emitted(venue, es) ==
  LET RECURSIVE Upto(_)
      Upto(i) ==
        IF i = 0 THEN <<>>
        ELSE IF EntryResult(venue, es[i]) = "emit" THEN Append(Upto(i - 1), i)
                                                  ELSE Upto(i - 1)
  IN Upto(FirstThrow(venue, es) - 1)

\* a handler whose catch clause is missing
Caught_Nothing(venue, kind) == {}

\* the exceptions the catch clause around the handler's body takes
Caught(venue, kind) == {"simdjson_error"}

\* what leaves the parsing code: .value() on an error throws simdjson_error.
\* Bybit reads doc["topic"] with .value() whatever the frame is; Polymarket
\* reads doc.get_object().value() and returns when event_type is absent;
\* Bitget and Hyperliquid test every lookup of the frame for an error and
\* return
Thrown(venue, kind, es) ==
  IF Handles(venue, kind)
    THEN IF FirstThrow(venue, es) <= Len(es) THEN {"simdjson_error"} ELSE {}
    ELSE CASE venue = "Bybit" -> {"simdjson_error"}
           [] venue = "Polymarket" /\ kind # "unknown" -> {"simdjson_error"}
           [] OTHER -> {}

\* bus->publish appending in front of what the bus holds
Publish_Front(bus, evs) == evs \o bus

\* bus->publish, called from the handler for each event as it is built
Publish(bus, evs) == bus \o evs

\* the handler's state: the free slots of _bookPool, what was published (frame
\* number, entry, kind), the frames received, the symbols resolved so far
\* (registered, cached), whether an exception left a handler, how the last
\* frame ended (handled, dropped for want of a slot, in the catch clause),
\* whether any frame ended in a catch clause and what the last frame was
NoFeed ==
  [venue |-> "Bybit", free |-> 0, bus |-> <<>>, n |-> 0, known |-> {},
   escaped |-> FALSE, last |-> "ok", erred |-> FALSE, kind |-> "none"]

\* a book branch that keeps the acquired event when the handler throws
BookFrame_LeakOnThrow(f, s, es) ==
  LET v == f.venue
      threw == FirstThrow(v, es) <= Len(es)
      levels == Emitted(v, es)
      takes == ~threw /\ Publishes(v, levels, <<>>)
  IN IF f.free = 0
       THEN [f EXCEPT !.last = "dropped", !.known = IF v = "Polymarket" THEN @ \cup {s} ELSE @]
       ELSE [f EXCEPT !.known = @ \cup {s},
                      !.free = IF takes \/ threw THEN @ - 1 ELSE @,
                      !.bus = IF takes THEN Publish(@, <<[f |-> f.n + 1, i |-> 0, kind |-> "book"]>>)
                                       ELSE @]

\* the book branch: Polymarket resolves the symbol before it asks the pool,
\* the others after; an update is published from its slot unless the handler
\* threw or, Polymarket apart, no level was kept
BookFrame(f, s, es) ==
  LET v == f.venue
      threw == FirstThrow(v, es) <= Len(es)
      levels == Emitted(v, es)
      takes == ~threw /\ Publishes(v, levels, <<>>)
  IN IF f.free = 0
       THEN [f EXCEPT !.last = "dropped", !.known = IF v = "Polymarket" THEN @ \cup {s} ELSE @]
       ELSE [f EXCEPT !.known = @ \cup {s},
                      !.free = IF takes THEN @ - 1 ELSE @,
                      !.bus = IF takes THEN Publish(@, <<[f |-> f.n + 1, i |-> 0, kind |-> "book"]>>)
                                       ELSE @]

\* the handler resolves the symbol of an entry before it parses the entry
ResolvesFirst(venue, kind) ==
  \/ venue \in {"Bybit", "Polymarket"}
  \/ venue = "Bitget" /\ kind = "order"

\* the trade and order branches: one event per entry, published on the spot; a
\* Polymarket trade frame holds one trade
EntryFrame(f, kind, s, es) ==
  LET v == f.venue
      one == IF v = "Polymarket" THEN SubSeq(es, 1, IF es = <<>> THEN 0 ELSE 1) ELSE es
      idx == Emitted(v, one)
  IN [f EXCEPT !.known = IF idx # <<>> \/ (ResolvesFirst(v, kind) /\ one # <<>>)
                            THEN @ \cup {s} ELSE @,
               !.bus = Publish(@, [k \in 1..Len(idx) |->
                                     [f |-> f.n + 1, i |-> idx[k], kind |-> kind]])]

\* handleMessage / handlePrivateMessage / processBookSnapshot on one frame
handleFrame(kind, s, es) ==
  /\ ~ing.escaped /\ ing.n < MaxFrames
  /\ Handles(ing.venue, kind) \/ es = <<>>
  /\ LET thrown == Thrown(ing.venue, kind, es)
         f == [ing EXCEPT !.last = IF thrown # {} THEN "caught" ELSE "ok"]
         g == CASE ~Handles(ing.venue, kind) -> f
                [] kind = "book" -> BookFrame(f, s, es)
                [] OTHER -> EntryFrame(f, kind, s, es)
     IN ing' = [g EXCEPT !.n = @ + 1, !.kind = kind,
                         !.escaped = thrown \ Caught(ing.venue, kind) # {},
                         !.erred = @ \/ thrown # {}]
  /\ UNCHANGED <<execVars, lifeVars, transportVars, connVars, book, syms>>

\* a consumer lets go of a published BookUpdateEvent: its slot is free again
releaseEvent ==
  /\ ing.free < MaxSlots
  /\ ing' = [ing EXCEPT !.free = @ + 1]
  /\ UNCHANGED <<execVars, lifeVars, transportVars, connVars, book, syms>>

\* ------------------------------------------------------------ symbol resolution
MaxResolves == 3    \* calls of resolveSymbolId in a behaviour

\* the connector keeps its own token -> SymbolId map in front of the registry
UsesCache(venue) == venue = "Polymarket"

\* SymbolIds: the registry hands out 1, 2, ... in the order of registration
SymbolIds == 1..Cardinality(Symbols)

\* what a read of the map can give while another thread writes it: any id, or
\* nothing at all
Garbage == 0..Cardinality(Symbols)

\* the id made from the token's hash when the connector has no registry
HashId(s) == IF s = "BTC" THEN 1 ELSE 2

\* a caller of resolveSymbolId: where it is, the string, the id in hand
NoCaller == [pc |-> "idle", s |-> "BTC", id |-> 0]

\* the registry (string -> id, 0 when unregistered), the connector's map, the
\* ids every string has been resolved to so far, the callers
NoSym ==
  [venue |-> "Bybit", registry |-> TRUE,
   reg |-> [s \in Symbols |-> 0], cache |-> [s \in Symbols |-> 0],
   got |-> [s \in Symbols |-> {}], at |-> [t \in Threads |-> NoCaller],
   calls |-> 0, crashed |-> FALSE]

\* the call returns id to its caller
Resolved(y, t, id) ==
  [y EXCEPT !.got[y.at[t].s] = @ \cup {id}, !.at[t] = NoCaller]

\* another thread is inside `_tokenToSymbol[key] = id`
Writing(t) == \E u \in Threads \ {t} : syms.at[u].pc = "inserting"

\* resolveSymbolId is entered, from a websocket callback or from the
\* application (the method is public)
resolveCall(t, s) ==
  /\ ~syms.crashed /\ syms.calls < MaxResolves
  /\ syms.at[t].pc = "idle"
  /\ syms' = [syms EXCEPT !.calls = @ + 1,
                        !.at[t] = [pc |-> IF UsesCache(syms.venue) THEN "find" ELSE "lookup",
                                   s |-> s, id |-> 0]]
  /\ UNCHANGED <<execVars, lifeVars, transportVars, connVars, book, ing>>

\* _tokenToSymbol.find(key): no lock is taken, so a find that meets another
\* thread's insert is a data race and can give anything: a crash, a miss, or
\* whatever value it reads
cacheFind(t) ==
  /\ ~syms.crashed /\ syms.at[t].pc = "find"
  /\ LET s == syms.at[t].s
         miss == IF syms.registry
                   THEN [syms EXCEPT !.at[t].pc = "lookup"]
                   ELSE [syms EXCEPT !.at[t].pc = "insert", !.at[t].id = HashId(s)]
     IN IF Writing(t)
          THEN \/ syms' = [syms EXCEPT !.crashed = TRUE]
               \/ syms' = miss
               \/ \E id \in Garbage \ {0} : syms' = Resolved(syms, t, id)
          ELSE IF syms.cache[s] # 0 THEN syms' = Resolved(syms, t, syms.cache[s])
                                   ELSE syms' = miss
  /\ UNCHANGED <<execVars, lifeVars, transportVars, connVars, book, ing>>

\* _registry->getSymbolId(venue, symbol)
registryLookup(t) ==
  /\ ~syms.crashed /\ syms.at[t].pc = "lookup"
  /\ LET s == syms.at[t].s
     IN syms' = IF syms.reg[s] = 0 THEN [syms EXCEPT !.at[t].pc = "register"]
               ELSE IF UsesCache(syms.venue)
                      THEN [syms EXCEPT !.at[t].pc = "insert", !.at[t].id = syms.reg[s]]
                      ELSE Resolved(syms, t, syms.reg[s])
  /\ UNCHANGED <<execVars, lifeVars, transportVars, connVars, book, ing>>

\* registerSymbol(info): the id the symbol has, a fresh one if it has none
Register(reg, s) ==
  IF reg[s] # 0 THEN reg
  ELSE [reg EXCEPT ![s] = Cardinality({x \in Symbols : reg[x] # 0}) + 1]

\* _registry->registerSymbol(info)
registryRegister(t) ==
  /\ ~syms.crashed /\ syms.at[t].pc = "register"
  /\ LET s == syms.at[t].s
         r == Register(syms.reg, s)
         y == [syms EXCEPT !.reg = r]
     IN syms' = IF UsesCache(syms.venue)
                 THEN [y EXCEPT !.at[t].pc = "insert", !.at[t].id = r[s]]
                 ELSE Resolved(y, t, r[s])
  /\ UNCHANGED <<execVars, lifeVars, transportVars, connVars, book, ing>>

\* `_tokenToSymbol[key] = id` begins; two inserts at once are a data race too
cacheInsert(t) ==
  /\ ~syms.crashed /\ syms.at[t].pc = "insert"
  /\ \/ syms' = [syms EXCEPT !.at[t].pc = "inserting"]
     \/ Writing(t) /\ syms' = [syms EXCEPT !.crashed = TRUE]
  /\ UNCHANGED <<execVars, lifeVars, transportVars, connVars, book, ing>>

\* the insert is done and resolveSymbolId returns the id
cacheInserted(t) ==
  /\ ~syms.crashed /\ syms.at[t].pc = "inserting"
  /\ syms' = Resolved([syms EXCEPT !.cache[syms.at[t].s] = syms.at[t].id], t, syms.at[t].id)
  /\ UNCHANGED <<execVars, lifeVars, transportVars, connVars, book, ing>>

ResolveIdle == syms = NoSym

FeedIdle == ing = NoFeed /\ ResolveIdle

\* ------------------------------------------ TimeoutOrderTracker: lifecycle
\* configs a caller may hand over, valid and not
LifeConfigs ==
  [submitTimeoutMs : 0..1, cancelTimeoutMs : 0..1, replaceTimeoutMs : 0..1,
   checkIntervalMs : 0..1]

\* a tracker to be: the config, how it was constructed, whether the object
\* exists and whether construction reported an error; _running, _checkerThread
\* (none, joinable, joined), the checker thread itself, each caller's position
\* inside start() / stop() / the destructor; whether a stop() has returned
\* since _running was last set, whether a timeout pass ran after that, how
\* the process died, the calls made
NoLife ==
  [cfg |-> [submitTimeoutMs |-> 1, cancelTimeoutMs |-> 1, replaceTimeoutMs |-> 1,
            checkIntervalMs |-> 1],
   how |-> "none", tracker |-> FALSE, error |-> FALSE,
   running |-> FALSE, th |-> "none", worker |-> "none",
   at |-> [t \in Threads |-> "idle"],
   stopped |-> FALSE, late |-> FALSE, crashed |-> FALSE, gone |-> FALSE, calls |-> 0]

\* TimeoutOrderTracker(config) stores the config; ActiveTimeoutPolicy::init
\* makes a tracker if config.isValid() and does nothing otherwise; neither
\* throws or reports
Constructed(c, how) ==
  [tracker |-> how = "direct" \/ isValidTimeout(c), error |-> FALSE]

construct(how) ==
  /\ life.how = "none"
  /\ life' = [life EXCEPT !.how = how,
                          !.tracker = Constructed(life.cfg, how).tracker,
                          !.error = Constructed(life.cfg, how).error]
  /\ UNCHANGED <<execVars, transportVars, connVars, book, feedVars, mtx, sessVars>>

Usable(t) ==
  /\ life.tracker /\ ~life.gone /\ ~life.crashed
  /\ life.at[t] = "idle" /\ life.calls < MaxCalls

\* start(): if (_running.exchange(true)) return;
StartsAgain(running) == ~running

trackerStart(t) ==
  /\ Usable(t)
  /\ life' = IF StartsAgain(life.running)
               THEN [life EXCEPT !.calls = @ + 1, !.running = TRUE, !.stopped = FALSE,
                                 !.at[t] = "spawn"]
               ELSE [life EXCEPT !.calls = @ + 1]
  /\ UNCHANGED <<execVars, transportVars, connVars, book, feedVars, mtx, sessVars>>

\* _checkerThread = std::thread(...): assigning to a joinable std::thread
\* calls std::terminate
trackerSpawn(t) ==
  /\ life.at[t] = "spawn" /\ ~life.crashed
  /\ life' = IF life.th = "joinable"
               THEN [life EXCEPT !.crashed = TRUE]
               ELSE [life EXCEPT !.th = "joinable", !.worker = "loop", !.at[t] = "idle"]
  /\ UNCHANGED <<execVars, transportVars, connVars, book, feedVars, mtx, sessVars>>

\* stop(): if (!_running.exchange(false)) return;
trackerStop(t) ==
  /\ Usable(t)
  /\ life' = IF life.running
               THEN [life EXCEPT !.calls = @ + 1, !.running = FALSE, !.at[t] = "joinTest"]
               ELSE [life EXCEPT !.calls = @ + 1, !.stopped = TRUE]
  /\ UNCHANGED <<execVars, transportVars, connVars, book, feedVars, mtx, sessVars>>

\* if (_checkerThread.joinable())
trackerJoinTest(t) ==
  /\ life.at[t] \in {"joinTest", "dtorJoinTest"} /\ ~life.crashed
  /\ life' = IF life.th = "joinable"
               THEN [life EXCEPT !.at[t] = IF @ = "joinTest" THEN "joining" ELSE "dtorJoining"]
               ELSE IF life.at[t] = "joinTest"
                      THEN [life EXCEPT !.at[t] = "idle", !.stopped = TRUE]
                      ELSE [life EXCEPT !.at[t] = "idle", !.gone = TRUE]
  /\ UNCHANGED <<execVars, transportVars, connVars, book, feedVars, mtx, sessVars>>

\* _checkerThread.join() returns once the checker thread has ended
trackerJoin(t) ==
  /\ life.at[t] \in {"joining", "dtorJoining"} /\ ~life.crashed
  /\ life.worker = "exited"
  /\ life' = [life EXCEPT !.th = "joined", !.worker = "none", !.at[t] = "idle",
                          !.stopped = TRUE, !.gone = life.at[t] = "dtorJoining"]
  /\ UNCHANGED <<execVars, transportVars, connVars, book, feedVars, mtx, sessVars>>

\* ~TimeoutOrderTracker() { stop(); } and then the members: destroying a
\* joinable std::thread calls std::terminate. The owner destroys the tracker
\* when no other call is inside it
trackerDtor(t) ==
  /\ life.tracker /\ ~life.gone /\ ~life.crashed
  /\ \A u \in Threads : life.at[u] = "idle"
  /\ life' = IF life.running
               THEN [life EXCEPT !.running = FALSE, !.at[t] = "dtorJoinTest"]
               ELSE IF life.th = "joinable"
                      THEN [life EXCEPT !.crashed = TRUE]
                      ELSE [life EXCEPT !.gone = TRUE]
  /\ UNCHANGED <<execVars, transportVars, connVars, book, feedVars, mtx, sessVars>>

\* the checker thread: while (_running.load())
checkerLoop ==
  /\ life.worker = "loop" /\ ~life.crashed
  /\ life' = [life EXCEPT !.worker = IF life.running THEN "check" ELSE "exited"]
  /\ UNCHANGED <<execVars, transportVars, connVars, book, feedVars, mtx, sessVars>>

\* checkTimeouts() and the sleep after it: the pass may invoke timeout actions
checkerPass ==
  /\ life.worker = "check" /\ ~life.crashed
  /\ life' = [life EXCEPT !.worker = "loop", !.late = @ \/ life.stopped]
  /\ UNCHANGED <<execVars, transportVars, connVars, book, feedVars, mtx, sessVars>>

LifeIdle == life = NoLife

\* ------------------------------------------ TimeoutOrderTracker: the mutex
\* the tracker methods that take _mutex
LockedOps ==
  {"trackSubmit", "trackCancel", "trackReplace", "clearPending", "hasPending",
   "pendingCount"}

\* what a method does to _pending while it holds the mutex; an entry is
\* fresh until its deadline has passed, then due
Applied(pend, op, id) ==
  CASE op \in {"trackSubmit", "trackCancel", "trackReplace"} -> [pend EXCEPT ![id] = "fresh"]
    [] op = "clearPending" -> [pend EXCEPT ![id] = "absent"]
    [] OTHER -> pend

\* _mutex (who holds it), _pending, the checker thread inside checkTimeouts
\* (its position, its local vector timedOut, the entry whose callback runs),
\* where the tracker call made by the running callback stands, and where the
\* calls of the other threads stand (idle, at the lock_guard, in the method)
NoMutex ==
  [holder |-> "none", pend |-> [id \in OrderIds |-> "absent"],
   pc |-> "sleep", timedOut |-> {}, cur |-> 0,
   cb |-> "idle", at |-> [t \in Threads |-> "idle"]]

\* a thread calls a tracker method and reaches its std::lock_guard
lockCall(t) ==
  /\ mtx.at[t] = "idle"
  /\ mtx' = [mtx EXCEPT !.at[t] = "lock"]
  /\ UNCHANGED <<execVars, transportVars, connVars, book, feedVars, life, sessVars>>

\* the lock_guard is constructed: the caller waits as long as the mutex is held
lockTaken(t) ==
  /\ mtx.at[t] = "lock" /\ mtx.holder = "none"
  /\ mtx' = [mtx EXCEPT !.holder = t, !.at[t] = "in"]
  /\ UNCHANGED <<execVars, transportVars, connVars, book, feedVars, life, sessVars>>

\* the body of the method called and the end of the lock_guard's scope
lockDone(t, op, id) ==
  /\ mtx.at[t] = "in"
  /\ mtx' = [mtx EXCEPT !.holder = "none", !.at[t] = "idle",
                        !.pend = Applied(@, op, id)]
  /\ UNCHANGED <<execVars, transportVars, connVars, book, feedVars, life, sessVars>>

\* a deadline passes
lockDue(id) ==
  /\ mtx.pend[id] = "fresh"
  /\ mtx' = [mtx EXCEPT !.pend[id] = "due"]
  /\ UNCHANGED <<execVars, transportVars, connVars, book, feedVars, life, sessVars>>

\* checkTimeouts: std::lock_guard lock(_mutex);
scanLock ==
  /\ mtx.pc = "sleep" /\ mtx.holder = "none"
  /\ mtx' = [mtx EXCEPT !.holder = "checker", !.pc = "scan"]
  /\ UNCHANGED <<execVars, transportVars, connVars, book, feedVars, life, sessVars>>

\* a checkTimeouts whose lock_guard lives to the end of the function
ScanRelease_AtReturn(out) == IF out = {} THEN "none" ELSE "checker"

\* the block holding the lock_guard ends before the loop over timedOut
ScanRelease(out) == "none"

\* the loop over _pending: due entries move to timedOut; the block ends
scanExtract ==
  /\ mtx.pc = "scan"
  /\ LET out == {id \in OrderIds : mtx.pend[id] = "due"}
     IN mtx' = [mtx EXCEPT !.holder = ScanRelease(out),
                           !.pend = [id \in OrderIds |-> IF id \in out THEN "absent" ELSE @[id]],
                           !.timedOut = out,
                           !.pc = IF out = {} THEN "sleep" ELSE "fire"]
  /\ UNCHANGED <<execVars, transportVars, connVars, book, feedVars, life, sessVars>>

\* for (const auto& op : timedOut): _config.onReject / onTimeout is entered
fireEnter ==
  /\ mtx.pc = "fire"
  /\ \E id \in mtx.timedOut : mtx' = [mtx EXCEPT !.pc = "callback", !.cur = id]
  /\ UNCHANGED <<execVars, transportVars, connVars, book, feedVars, life, sessVars>>

\* the callback calls a method of the same tracker
callbackCall ==
  /\ mtx.pc = "callback" /\ mtx.cb = "idle"
  /\ mtx' = [mtx EXCEPT !.cb = "lock"]
  /\ UNCHANGED <<execVars, transportVars, connVars, book, feedVars, life, sessVars>>

\* that method's lock_guard: std::mutex is not recursive, the callback waits
\* for as long as anyone, its own thread included, holds the mutex
callbackLocked ==
  /\ mtx.cb = "lock" /\ mtx.holder = "none"
  /\ mtx' = [mtx EXCEPT !.holder = "callback", !.cb = "in"]
  /\ UNCHANGED <<execVars, transportVars, connVars, book, feedVars, life, sessVars>>

callbackDone(op, id) ==
  /\ mtx.cb = "in"
  /\ mtx' = [mtx EXCEPT !.holder = "none", !.cb = "idle",
                        !.pend = Applied(@, op, id)]
  /\ UNCHANGED <<execVars, transportVars, connVars, book, feedVars, life, sessVars>>

\* the callback returns; after the last one checkTimeouts returns
fireReturn ==
  /\ mtx.pc = "callback" /\ mtx.cb = "idle"
  /\ LET rest == mtx.timedOut \ {mtx.cur}
     IN mtx' = [mtx EXCEPT !.timedOut = rest, !.cur = 0,
                           !.pc = IF rest = {} THEN "sleep" ELSE "fire",
                           !.holder = IF rest = {} /\ @ = "checker" THEN "none" ELSE @]
  /\ UNCHANGED <<execVars, transportVars, connVars, book, feedVars, life, sessVars>>

MutexIdle == mtx = NoMutex

\* ------------------------------------------------------------ subscriptions
MaxSymbols == 21    \* configured symbols of one connector
MaxOpens == 2       \* Open messages (connections) of one websocket client
MaxCoinLen == 63    \* length of the longest configured symbol name

BATCH_SIZE == 10    \* symbols per Bitget subscribe message

BufSize == 128      \* the buffer Hyperliquid formats a subscription into

\* the text of a Hyperliquid subscription around the coin name
SubscribeText ==
  "{\"method\":\"subscribe\",\"subscription\":{\"type\":\"l2Book\",\"coin\":\"\"}}"

\* snprintf's result n passes the test n > 0 && n < buf.size()
Fits(len) == Len(SubscribeText) + len < BufSize

Min(a, b) == IF a < b THEN a ELSE b

\* configured symbol lists, as the lengths of the names: any number of
\* symbols, at most one of them with a name that is not short
SymbolLists ==
  {[i \in 1..n |-> IF i = k THEN l ELSE 1] :
     n \in 0..MaxSymbols, k \in 0..MaxSymbols, l \in {MaxCoinLen - 1, MaxCoinLen}}

\* Bitget: one message per batch of BATCH_SIZE symbols, book and trade
\* channel of each symbol in it
BitgetBatches(names) ==
  LET n == Len(names)
      count == (n + BATCH_SIZE - 1) \div BATCH_SIZE
  IN [b \in 1..count |->
        [chan |-> "both",
         syms |-> [j \in 1..(Min(b * BATCH_SIZE, n) - (b - 1) * BATCH_SIZE) |->
                     (b - 1) * BATCH_SIZE + j]]]

\* Hyperliquid: an l2Book and a trades message per symbol, each sent if the
\* formatted text fits the buffer
HyperliquidMessages(names) ==
  LET RECURSIVE Upto(_)
      Upto(i) ==
        IF i = 0 THEN <<>>
        ELSE Upto(i - 1) \o
               (IF Fits(names[i])
                  THEN <<[chan |-> "l2Book", syms |-> <<i>>],
                         [chan |-> "trades", syms |-> <<i>>]>>
                  ELSE <<>>)
  IN Upto(Len(names))

\* the messages the open handler sends, in order
Subscriptions(venue, names) ==
  LET all == [i \in 1..Len(names) |-> i]
  IN CASE venue = "Bybit" -> <<[chan |-> "both", syms |-> all]>>
       [] venue = "Bitget" -> BitgetBatches(names)
       [] venue = "Hyperliquid" -> HyperliquidMessages(names)
       [] OTHER -> IF names = <<>> THEN <<>> ELSE <<[chan |-> "market", syms |-> all]>>

\* a connector's public client: the configured symbols, the connections
\* opened so far, whether one is open and what was sent on it
NoSub == [venue |-> "Bybit", names |-> <<>>, opens |-> 0, up |-> FALSE,
          sent |-> <<>>]

\* the client reports Open: run() calls _onOpen, the connector's handler
onOpen ==
  /\ ~sub.up /\ sub.opens < MaxOpens
  /\ sub' = [sub EXCEPT !.opens = @ + 1, !.up = TRUE,
                        !.sent = Subscriptions(sub.venue, sub.names)]
  /\ UNCHANGED <<execVars, transportVars, connVars, book, feedVars, life, mtx, priv, hl>>

\* the connection is lost; what was subscribed on it is gone with it
onClose ==
  /\ sub.up
  /\ sub' = [sub EXCEPT !.up = FALSE, !.sent = <<>>]
  /\ UNCHANGED <<execVars, transportVars, connVars, book, feedVars, life, mtx, priv, hl>>

\* ------------------------------------------- Bybit private channel
MaxReplies == 3     \* frames received on one private connection

\* frames the private socket delivers: the reply to the auth request (success
\* true, false, or not a bool), another service frame with "op", a topic frame,
\* a frame that is not JSON. The venue answers a request once, so an auth
\* reply comes only while the auth sent on this connection is unanswered.
PrivateFrames == {"authOk", "authFail", "authBad", "service", "topic", "junk"}

AuthReplies == {"authOk", "authFail", "authBad"}

\* what handlePrivateMessage sends for a frame
PrivateSends_AnyAuth(frame) ==
  IF frame \in {"authOk", "authFail"} THEN <<"subscribe">> ELSE <<>>

PrivateSends(frame) == IF frame = "authOk" THEN <<"subscribe">> ELSE <<>>

\* the private client: connections opened so far, whether one is open, what
\* was received and sent on it
NoPriv == [up |-> FALSE, opens |-> 0, got |-> <<>>, sent |-> <<>>]

\* the private client reports Open: the open handler sends the auth payload
privOpen ==
  /\ ~priv.up /\ priv.opens < MaxOpens
  /\ priv' = [priv EXCEPT !.up = TRUE, !.opens = @ + 1, !.got = <<>>, !.sent = <<"auth">>]
  /\ UNCHANGED <<execVars, transportVars, connVars, book, feedVars, life, mtx, sub, hl>>

handlePrivateMessage(frame) ==
  /\ priv.up /\ Len(priv.got) < MaxReplies
  /\ frame \in AuthReplies => \A i \in 1..Len(priv.got) : priv.got[i] \notin AuthReplies
  /\ priv' = [priv EXCEPT !.got = Append(@, frame), !.sent = @ \o PrivateSends(frame)]
  /\ UNCHANGED <<execVars, transportVars, connVars, book, feedVars, life, mtx, sub, hl>>

\* the private connection is lost
privClose ==
  /\ priv.up
  /\ priv' = [priv EXCEPT !.up = FALSE, !.got = <<>>, !.sent = <<>>]
  /\ UNCHANGED <<execVars, transportVars, connVars, book, feedVars, life, mtx, sub, hl>>

\* ------------------------------------------- Hyperliquid executor
MaxOps == 3         \* operations called on one Hyperliquid executor

\* what the signer daemon does with a request: no connection, send fails,
\* no answer within the socket timeout, an answer lacking r, s or v, an answer
\* with all three (well-formed or not)
SignerReplies == {"unreachable", "sendFailed", "timeout", "missing", "illformed", "signed"}

\* hl_sign_with_sdk returns a signature (TRUE) or nullopt (FALSE)
hl_sign_with_sdk_Always(reply) == TRUE

hl_sign_with_sdk(reply) == reply \in {"illformed", "signed"}

\* the reply to the meta request: a body with a universe array, a body
\* without one, a transport error
MetaReplies == {"universe", "noUniverse", "fetchError"}

\* the entries the continuations of the meta request put into _assetIds
MetaAssets_Fallback(meta) == Registered

MetaAssets(meta) == IF meta = "universe" THEN Registered ELSE {}

\* the calls an operation makes after tryAcquire returned true, in order, up
\* to its return: the checks up to the first that fails; if none fails,
\* track_<op>, post and the continuation's clearPending
HlCalls(op, state, coin, assets, reply) ==
  LET get == <<"get", state # "none">>
      cloid == <<"clientOrderId", state = "full">>
      info == <<"getSymbolInfo", coin \in Registered>>
      asset == <<"assetIdFor", coin \in assets>>
      sign == <<"hl_sign_with_sdk", hl_sign_with_sdk(reply)>>
      checks == CASE op = "SUBMIT" -> <<info, asset, sign>>
                  [] op = "CANCEL" -> <<get, cloid, info, asset, sign>>
                  [] op = "REPLACE" -> <<get, info, asset, sign>>
      failed == {i \in 1..Len(checks) : ~checks[i][2]}
      stop == IF failed = {} THEN Len(checks)
              ELSE CHOOSE i \in failed : \A j \in failed : i <= j
  IN [i \in 1..stop |-> checks[i][1]]
       \o (IF failed = {} THEN <<"track", "post", "clearPending">> ELSE <<>>)

NoHl ==
  [loaded |-> FALSE, meta |-> "none", assets |-> {}, metaPosts |-> 0, ops |-> 0, calls |-> <<>>,
   signer |-> "none", tracked |-> 0, posts |-> 0]

\* the constructor calls loadAssetIds: it sets _assetsLoaded, then posts the
\* meta request, whose continuation runs before post returns
loadAssetIds(meta) ==
  /\ ~hl.loaded
  /\ hl' = [hl EXCEPT !.loaded = TRUE, !.meta = meta, !.metaPosts = @ + 1,
                      !.assets = MetaAssets(meta)]
  /\ UNCHANGED <<execVars, transportVars, connVars, book, feedVars, life, mtx, sub, priv>>

\* submitOrder / cancelOrder / replaceOrder on the constructed executor
hlOperation(op, state, coin, reply) ==
  /\ hl.loaded /\ hl.ops < MaxOps
  /\ LET c == HlCalls(op, state, coin, hl.assets, reply)
         has(x) == \E i \in 1..Len(c) : c[i] = x
     IN hl' = [hl EXCEPT !.ops = @ + 1, !.calls = <<op>> \o c,
                         !.signer = IF has("hl_sign_with_sdk") THEN reply ELSE "none",
                         !.tracked = IF has("track") THEN @ + 1 ELSE @,
                         !.posts = IF has("post") THEN @ + 1 ELSE @]
  /\ UNCHANGED <<execVars, transportVars, connVars, book, feedVars, life, mtx, sub, priv>>

SubIdle == sub = NoSub /\ priv = NoPriv /\ hl = NoHl


NetIdle == TransportIdle /\ ConnIdle /\ book = NoBook /\ FeedIdle /\ LifeIdle /\ MutexIdle /\ SubIdle

\* --------------------------------------------------------- specifications
TimeoutConfigs ==
  [submitTimeoutMs : 1..MaxTimeoutMs, cancelTimeoutMs : 1..MaxTimeoutMs,
   replaceTimeoutMs : 1..MaxTimeoutMs, checkIntervalMs : {1},
   policy : TimeoutPolicies, hasOnTimeout : BOOLEAN, hasOnReject : BOOLEAN]

\* the shape of the defaults of OrderTimeoutConfig: cancel has the shortest
\* deadline, submit and replace share the longest; REJECT is the default policy
DefaultDeadlines(c) ==
  c.submitTimeoutMs = MaxTimeoutMs /\ c.cancelTimeoutMs = 1
    /\ c.replaceTimeoutMs = MaxTimeoutMs

\* another valid shape: submit has the shortest deadline, replace the longest
SubmitFirst(c) ==
  c.submitTimeoutMs = 1 /\ c.cancelTimeoutMs = 1 /\ c.replaceTimeoutMs = MaxTimeoutMs

DefaultPolicy(c) == c.policy = "REJECT" /\ c.hasOnReject /\ c.hasOnTimeout

NoRateLimit ==
  [rlOn |-> FALSE, capacity |-> 0, refillRate |-> 0, rlPolicy |-> "REJECT",
   hasOnRateLimited |-> FALSE]

Merge(a, b) ==
  [k \in DOMAIN a \cup DOMAIN b |-> IF k \in DOMAIN a THEN a[k] ELSE b[k]]

InitialOrders ==
  [id \in OrderIds |->
     IF id = 1 THEN [known |-> TRUE, symbol |-> "BTC", cloid |-> TRUE] ELSE NoState]

\* a TimeoutOrderTracker constructed from a valid config and started; its
\* track_* / clear_pending are called directly, in any order, from any thread
TrackerInit ==
  /\ cfg \in {Merge(Merge(c, NoRateLimit), [venue |-> "Bybit", timeoutOn |-> TRUE]) :
                c \in {x \in TimeoutConfigs :
                         isValidTimeout(x) /\ DefaultDeadlines(x) /\ DefaultPolicy(x)}}
  /\ now = 0
  /\ pending = {}
  /\ chk = [pc |-> "sleep", now |-> 0, timedOut |-> {}]
  /\ hist = <<>>
  /\ tokens = 0
  /\ grants = 0
  /\ orders = [id \in OrderIds |-> NoState]
  /\ assetIds = {}
  /\ thr = [t \in Threads |-> IdleThread]
  /\ last = NoCall
  /\ NetIdle

TrackerNext ==
  \/ \E id \in OrderIds : trackSubmit(id)
  \/ \E id \in OrderIds : trackCancel(id)
  \/ \E id \in OrderIds : trackReplace(id)
  \/ \E id \in OrderIds : clearPending(id)
  \/ CheckerBegin
  \/ CheckerScan
  \/ CheckerFire
  \/ Tick

TrackerSpec == TrackerInit /\ [][TrackerNext]_vars

\* a TimeoutOrderTracker under every policy, with and without callbacks, and
\* under two shapes of deadlines, tracking operations whose replies never come
PolicyInit ==
  /\ cfg \in {Merge(Merge(c, NoRateLimit), [venue |-> "Bybit", timeoutOn |-> TRUE]) :
                c \in {x \in TimeoutConfigs :
                         /\ isValidTimeout(x)
                         /\ DefaultDeadlines(x) \/ (DefaultPolicy(x) /\ SubmitFirst(x))}}
  /\ now = 0
  /\ pending = {}
  /\ chk = [pc |-> "sleep", now |-> 0, timedOut |-> {}]
  /\ hist = <<>>
  /\ tokens = 0
  /\ grants = 0
  /\ orders = [id \in OrderIds |-> NoState]
  /\ assetIds = {}
  /\ thr = [t \in Threads |-> IdleThread]
  /\ last = NoCall
  /\ NetIdle

PolicyNext ==
  \/ \E id \in OrderIds : trackSubmit(id)
  \/ \E id \in OrderIds : trackCancel(id)
  \/ \E id \in OrderIds : trackReplace(id)
  \/ CheckerBegin
  \/ CheckerScan
  \/ CheckerFire
  \/ Tick

PolicySpec == PolicyInit /\ [][PolicyNext]_vars

\* an executor of one venue built with its policies; the timeout policy, when
\* active, has been init()ed and start()ed by the constructor. The rate-limit
\* preamble is the same statement in every executor: each venue runs without
\* a limiter, one venue runs with each limiter policy
RateLimitConfigs ==
  [rlOn : {TRUE}, capacity : {1}, refillRate : {1}, rlPolicy : RateLimitPolicies,
   hasOnRateLimited : {TRUE}]

ExecutorConfigs ==
  {Merge(r, [venue |-> v]) : r \in {NoRateLimit}, v \in Venues}
    \cup {Merge(r, [venue |-> "Bybit"]) : r \in RateLimitConfigs}

Init ==
  /\ cfg \in {Merge(Merge(c, e), [timeoutOn |-> TRUE]) :
                c \in {x \in TimeoutConfigs : DefaultDeadlines(x) /\ DefaultPolicy(x)},
                e \in ExecutorConfigs}
  /\ now = 0
  /\ pending = {}
  /\ chk = [pc |-> "sleep", now |-> 0, timedOut |-> {}]
  /\ hist = <<>>
  /\ tokens = cfg.capacity
  /\ grants = 0
  /\ orders = InitialOrders
  /\ assetIds = IF cfg.venue = "Hyperliquid" THEN {"BTC"} ELSE {}
  /\ thr = [t \in Threads |-> IdleThread]
  /\ last = NoCall
  /\ NetIdle

Next ==
  \/ \E t \in Threads, id \in OrderIds, sym \in Symbols : Begin(t, "SUBMIT", id, sym)
  \/ \E t \in Threads, id \in OrderIds : Begin(t, "CANCEL", id, "none")
  \/ \E t \in Threads, id \in OrderIds, sym \in Symbols : Begin(t, "REPLACE", id, sym)
  \/ \E t \in Threads : WaitDone(t)
  \/ \E t \in Threads : Track(t)
  \/ \E t \in Threads : Dispatch(t)
  \/ \E t \in Threads : Continuation(t)
  \/ CheckerBegin
  \/ CheckerScan
  \/ CheckerFire
  \/ Tick

Spec == Init /\ [][Next]_vars

\* an ActiveRateLimitPolicy init()ed from a valid config, called from two threads
RateInit ==
  /\ cfg \in {Merge(Merge(c, r), [venue |-> "Bybit", timeoutOn |-> FALSE]) :
                c \in {x \in TimeoutConfigs : DefaultDeadlines(x) /\ DefaultPolicy(x)},
                r \in [rlOn : {TRUE}, capacity : 1..MaxCapacity, refillRate : {1},
                       rlPolicy : RateLimitPolicies, hasOnRateLimited : BOOLEAN]}
  /\ now = 0
  /\ pending = {}
  /\ chk = [pc |-> "sleep", now |-> 0, timedOut |-> {}]
  /\ hist = <<>>
  /\ tokens = cfg.capacity
  /\ grants = 0
  /\ orders = InitialOrders
  /\ assetIds = {}
  /\ thr = [t \in Threads |-> IdleThread]
  /\ last = NoCall
  /\ NetIdle

RateNext ==
  \/ \E t \in Threads, id \in OrderIds : tryAcquireCall(t, id)
  \/ \E t \in Threads : tryAcquireWake(t)
  \/ Tick

RateSpec == RateInit /\ [][RateNext]_vars

\* NoRateLimitPolicy::tryAcquire at the head of an operation: true, nothing
\* else happens; okPc as in Acquire
NoRateLimitPolicy(t, op, id, sym, okPc) ==
  LET fin == okPc \in {"done", "abort"}
  IN /\ tokens' = tokens
     /\ grants' = grants + 1
     /\ thr' = [thr EXCEPT ![t] =
                  IF fin THEN DoneThread
                  ELSE [IdleThread EXCEPT !.pc = okPc, !.op = op, !.id = id,
                                          !.sym = sym, !.wakeAt = now]]
     /\ last' = IF fin THEN [NoCall EXCEPT !.op = op, !.id = id, !.sym = sym,
                                           !.acq = "true"]
                       ELSE last

\* RateLimitConfigs with capacity 0, refill rate 0, or both, under every policy
ZeroRateLimitConfigs ==
  {x \in [rlOn : {TRUE}, capacity : 0..1, refillRate : 0..1,
          rlPolicy : RateLimitPolicies, hasOnRateLimited : {TRUE}] :
     x.capacity = 0 \/ x.refillRate = 0}

\* an executor whose ActiveRateLimitPolicy was init()ed from such a config:
\* one venue runs with each of them, the other venues with capacity 0 and
\* refill rate 0 under REJECT; the timeout policy is NoTimeoutPolicy
FailOpenInit ==
  /\ cfg \in {Merge(Merge(c, e[1]), [venue |-> e[2], timeoutOn |-> FALSE]) :
                c \in {x \in TimeoutConfigs : DefaultDeadlines(x) /\ DefaultPolicy(x)},
                e \in {x \in ZeroRateLimitConfigs \X Venues :
                         \/ x[2] = "Bybit"
                         \/ /\ x[1].capacity = 0 /\ x[1].refillRate = 0
                            /\ x[1].rlPolicy = "REJECT"}}
  /\ now = 0
  /\ pending = {}
  /\ chk = [pc |-> "sleep", now |-> 0, timedOut |-> {}]
  /\ hist = <<>>
  /\ tokens = cfg.capacity
  /\ grants = 0
  /\ orders = InitialOrders
  /\ assetIds = IF cfg.venue = "Hyperliquid" THEN {"BTC"} ELSE {}
  /\ thr = [t \in Threads |-> IdleThread]
  /\ last = NoCall
  /\ NetIdle

FailOpenNext ==
  \/ \E t \in Threads, id \in OrderIds, sym \in Symbols : Begin(t, "SUBMIT", id, sym)
  \/ \E t \in Threads, id \in OrderIds : Begin(t, "CANCEL", id, "none")
  \/ \E t \in Threads, id \in OrderIds, sym \in Symbols : Begin(t, "REPLACE", id, sym)
  \/ \E t \in Threads : Track(t)
  \/ \E t \in Threads : Dispatch(t)
  \/ \E t \in Threads : Continuation(t)
  \/ Tick

FailOpenSpec == FailOpenInit /\ [][FailOpenNext]_vars

\* the order executors before any use, under the default configuration
ExecIdle ==
  /\ cfg \in {Merge(Merge(c, NoRateLimit), [venue |-> "Bybit", timeoutOn |-> FALSE]) :
                c \in {x \in TimeoutConfigs : DefaultDeadlines(x) /\ DefaultPolicy(x)}}
  /\ now = 0
  /\ pending = {}
  /\ chk = [pc |-> "sleep", now |-> 0, timedOut |-> {}]
  /\ hist = <<>>
  /\ tokens = cfg.capacity
  /\ grants = 0
  /\ orders = InitialOrders
  /\ assetIds = {}
  /\ thr = [t \in Threads |-> IdleThread]
  /\ last = NoCall

\* a CurlTransport over a pool built from a valid config, posted to by Threads
TransportInit ==
  /\ ExecIdle /\ ConnIdle /\ book = NoBook /\ FeedIdle /\ LifeIdle /\ MutexIdle /\ SubIdle
  /\ pool \in {NewPool(c) : c \in PoolConfigs}
  /\ stk = [t \in Threads |-> <<>>]

TransportNext ==
  \/ \E t \in Threads, initOk \in BOOLEAN : post(t, initOk)
  \/ \E t \in Threads, initOk \in BOOLEAN : acquireWake(t, initOk)
  \/ \E t \in Threads : acquireTimeout(t)
  \/ \E t \in Threads, res \in CurlResults : perform(t, res)
  \/ \E t \in Threads : invoke(t)
  \/ \E t \in Threads : postReturn(t)
  \/ Tick

TransportSpec == TransportInit /\ [][TransportNext]_vars

\* one connector of any venue, any config, driven by one caller of start() /
\* stop() while its worker threads run
ConnectorInit ==
  /\ ExecIdle /\ TransportIdle /\ book = NoBook /\ FeedIdle /\ LifeIdle /\ MutexIdle /\ SubIdle
  /\ conn \in {[NoConn EXCEPT !.venue = v, !.valid = ok, !.wired = w, !.priv = p] :
                 v \in ConnVenues, ok \in BOOLEAN, w \in BOOLEAN, p \in BOOLEAN}
  /\ conn.venue # "Hyperliquid" => conn.wired
  /\ ~HasPrivate(conn.venue) => ~conn.priv
  /\ ws = [n \in WsNames |->
             IF n = "pub" /\ ClientInCtor(conn.venue) THEN NewClient ELSE NoClient]

ConnectorNext ==
  \/ \E outcome \in {"segv", "no"} : connStart(outcome)
  \/ connStop
  \/ stopJoinPing
  \/ stopClient
  \/ dtorStop
  \/ dtorJoin
  \/ pingTest
  \/ pingSend
  \/ pingExit
  \/ \E n \in WsNames : wsLoop(n)
  \/ \E n \in WsNames : wsStartSocket(n)
  \/ \E n \in WsNames : wsInnerExit(n)
  \/ \E n \in WsNames : wsDrop(n)

ConnectorSpec == ConnectorInit /\ [][ConnectorNext]_vars

\* the same connector with its websocket workers scheduled: a worker thread
\* that can take its next step in run() (the polling sleep of 100 ms and the
\* sleep of _reconnectDelayMs are finite) eventually takes it
ConnectorLiveSpec ==
  /\ ConnectorSpec
  /\ \A n \in WsNames :
       WF_vars(wsLoop(n)) /\ WF_vars(wsStartSocket(n)) /\ WF_vars(wsInnerExit(n))
  /\ WF_vars(pingSend) /\ WF_vars(pingExit) /\ WF_vars(stopJoinPing)

\* the book handler of every venue on every frame
BookInit == ExecIdle /\ TransportIdle /\ ConnIdle /\ book = NoBook /\ FeedIdle /\ LifeIdle /\ MutexIdle /\ SubIdle

BookNext ==
  \E venue \in ConnVenues, poolOk \in BOOLEAN, bidsIn \in SideInputs, asksIn \in SideInputs :
    handleBook(venue, poolOk, bidsIn, asksIn)

BookSpec == BookInit /\ [][BookNext]_vars

\* the message handlers of one connector on the frames of one connection
FeedInit ==
  /\ ExecIdle /\ TransportIdle /\ ConnIdle /\ book = NoBook /\ ResolveIdle /\ LifeIdle /\ MutexIdle /\ SubIdle
  /\ ing \in {[NoFeed EXCEPT !.venue = v, !.free = MaxSlots] : v \in ConnVenues}

FeedNext ==
  \/ \E kind \in FrameKinds, s \in Symbols, es \in EntryLists : handleFrame(kind, s, es)
  \/ releaseEvent

FeedSpec == FeedInit /\ [][FeedNext]_vars

\* resolveSymbolId of one connector, called from two threads
ResolveInit ==
  /\ ExecIdle /\ TransportIdle /\ ConnIdle /\ book = NoBook /\ ing = NoFeed /\ LifeIdle /\ MutexIdle /\ SubIdle
  /\ \E v \in ConnVenues, r \in BOOLEAN :
       /\ r \/ v = "Polymarket"
       /\ syms = [NoSym EXCEPT !.venue = v, !.registry = r]

ResolveNext ==
  \/ \E t \in Threads, s \in Symbols : resolveCall(t, s)
  \/ \E t \in Threads : cacheFind(t)
  \/ \E t \in Threads : registryLookup(t)
  \/ \E t \in Threads : registryRegister(t)
  \/ \E t \in Threads : cacheInsert(t)
  \/ \E t \in Threads : cacheInserted(t)

ResolveSpec == ResolveInit /\ [][ResolveNext]_vars

\* a TimeoutOrderTracker from its construction to its destruction, its
\* start() and stop() called from two threads
LifeInit ==
  /\ ExecIdle /\ TransportIdle /\ ConnIdle /\ book = NoBook /\ FeedIdle /\ MutexIdle /\ SubIdle
  /\ life \in {[NoLife EXCEPT !.cfg = c] : c \in LifeConfigs}

LifeNext ==
  \/ \E how \in {"direct", "policy"} : construct(how)
  \/ \E t \in Threads : trackerStart(t)
  \/ \E t \in Threads : trackerSpawn(t)
  \/ \E t \in Threads : trackerStop(t)
  \/ \E t \in Threads : trackerJoinTest(t)
  \/ \E t \in Threads : trackerJoin(t)
  \/ \E t \in Threads : trackerDtor(t)
  \/ checkerLoop
  \/ checkerPass

LifeSpec == LifeInit /\ [][LifeNext]_vars

\* a running tracker: its checker thread, its callbacks and two other threads
\* contend for _mutex
MutexInit ==
  /\ ExecIdle /\ TransportIdle /\ ConnIdle /\ book = NoBook /\ FeedIdle /\ LifeIdle
  /\ MutexIdle /\ SubIdle

MutexNext ==
  \/ \E t \in Threads : lockCall(t)
  \/ \E t \in Threads : lockTaken(t)
  \/ \E t \in Threads, op \in LockedOps, id \in OrderIds : lockDone(t, op, id)
  \/ \E id \in OrderIds : lockDue(id)
  \/ scanLock
  \/ scanExtract
  \/ fireEnter
  \/ callbackCall
  \/ callbackLocked
  \/ \E op \in LockedOps, id \in OrderIds : callbackDone(op, id)
  \/ fireReturn

MutexSpec == MutexInit /\ [][MutexNext]_vars

\* the open handler of a started connector of any venue, any symbol list
SubInit ==
  /\ ExecIdle /\ TransportIdle /\ ConnIdle /\ book = NoBook /\ FeedIdle /\ LifeIdle /\ MutexIdle
  /\ sub \in {[NoSub EXCEPT !.venue = v, !.names = ns] : v \in ConnVenues, ns \in SymbolLists}
  /\ priv = NoPriv /\ hl = NoHl

SubNext == onOpen \/ onClose

SubSpec == SubInit /\ [][SubNext]_vars

\* a started Bybit connector with enablePrivate, before its private client
\* has connected
PrivInit == ExecIdle /\ NetIdle

PrivNext ==
  \/ privOpen
  \/ \E frame \in PrivateFrames : handlePrivateMessage(frame)
  \/ privClose

PrivSpec == PrivInit /\ [][PrivNext]_vars

\* a Hyperliquid executor at the start of its constructor
HlInit == ExecIdle /\ NetIdle

HlNext ==
  \/ \E meta \in MetaReplies : loadAssetIds(meta)
  \/ \E op \in {"SUBMIT", "CANCEL", "REPLACE"}, state \in {"none", "noCloid", "full"},
        coin \in Symbols, reply \in SignerReplies : hlOperation(op, state, coin, reply)

HlSpec == HlInit /\ [][HlNext]_vars

\* ------------------------------------------------------------ properties
\* C1: for every submit, cancel and replace of every venue executor, when
\* the transport reports an error, or the reply is 2xx but carries a
\* venue-level failure (Bybit retCode != 0; Bitget code != "00000";
\* Hyperliquid submit with neither resting.oid nor filled.oid; Hyperliquid
\* cancel / modify with status != "ok"), no OrderTracker method is invoked.
C1_NoTrackerOnFailure ==
  LET r == last.reply
      venueFailure ==
        /\ r.transport = "ok"
        /\ IF cfg.venue = "Hyperliquid" /\ last.op = "SUBMIT"
             THEN r.oid = "absent"
             ELSE r.code = "fail"
  IN (last.sent /\ (r.transport = "error" \/ venueFailure)) => last.calls = <<>>

\* C2: an operation whose reply is 2xx and carries the venue's success code
\* invokes exactly one OrderTracker method, once, the one matching the
\* operation (submit -> onSubmitted, cancel -> onCanceled, replace -> onReplaced).
C2_OneTrackerCallOnSuccess ==
  LET r == last.reply
      venueSuccess ==
        /\ r.transport = "ok"
        /\ IF cfg.venue = "Hyperliquid" /\ last.op = "SUBMIT"
             THEN r.oid = "number"
             ELSE r.code = "ok"
      matching == CASE last.op = "SUBMIT" -> "onSubmitted"
                    [] last.op = "CANCEL" -> "onCanceled"
                    [] last.op = "REPLACE" -> "onReplaced"
  IN (last.sent /\ venueSuccess) => last.calls = <<matching>>

\* C3: an operation that reaches the transport has called track_<op>(id)
\* before the request left, and its continuation, success or error, starts
\* with clear_pending(id): an operation in flight has created an entry for its
\* id and type, and once the continuation has run the tracker holds no pending
\* entry created by that operation, whatever the reply was.
C3_TrackBeforeClearFirst ==
  /\ \A t \in Threads :
       thr[t].pc \in {"post", "inflight"} =>
         /\ thr[t].gen \in DOMAIN hist
         /\ hist[thr[t].gen].orderId = thr[t].id
         /\ hist[thr[t].gen].opType = thr[t].op
         /\ ~hist[thr[t].gen].answered
  /\ last.sent => (last.gen \in DOMAIN hist /\ hist[last.gen].answered)
  /\ \A g \in DOMAIN hist : hist[g].answered => g \notin Gens(pending)

\* an operation got a transport error; its error continuation erased the
\* entry the operation had created, while another operation is still pending
C3_Witness ==
  /\ last.sent /\ last.reply.transport = "error"
  /\ last.gen \in DOMAIN hist
  /\ hist[last.gen].cleared = 1 /\ hist[last.gen].answered
  /\ \E e \in pending : e.orderId # last.id

\* C4: timeout firing is exactly-once. An entry created by track_<op> is
\* handed to the policy at most once; it is never both cleared and handed to
\* the policy; once extracted by the scan it is no longer pending, so a later
\* clear_pending finds nothing; an entry that left _pending without being
\* cleared or re-tracked was extracted by the scan, and when checkTimeouts has
\* returned every extracted entry has had its policy action exactly once.
C4_ExactlyOnce ==
  \A g \in DOMAIN hist :
    LET h == hist[g]
        held == g \in Gens(chk.timedOut)
        live == g \in Gens(pending)
    IN /\ h.fired <= 1
       /\ h.cleared <= 1
       /\ ~(h.cleared > 0 /\ (h.fired > 0 \/ held))
       /\ ~(h.replaced /\ (h.fired > 0 \/ held))
       /\ ~(h.fired > 0 /\ held)
       /\ ~(live /\ (h.fired > 0 \/ held \/ h.cleared > 0 \/ h.replaced))
       /\ (~live /\ h.cleared = 0 /\ ~h.replaced) => (held \/ h.fired = 1)
       /\ chk.pc = "sleep" => ~held

\* an entry has fired, checkTimeouts has returned, and a clear_pending of the
\* same id arriving afterwards erased nothing, while another entry was cleared
C4_Witness ==
  \E g, k \in DOMAIN hist :
    /\ hist[g].fired = 1 /\ hist[g].cleared = 0
    /\ chk.pc = "sleep"
    /\ last.op = "CLEAR" /\ last.id = hist[g].orderId /\ last.removed = 0
    /\ EntriesOf(pending, last.id) = {}
    /\ k # g /\ hist[k].cleared = 1 /\ hist[k].fired = 0

\* C5: the action taken for a timed-out entry is fixed by the policy and the
\* entry's operation type: LOG_ONLY calls nothing; REJECT calls
\* on_reject(id, "<op> timeout") (when that callback is set) and never
\* on_timeout; CALLBACK and RECONCILE call on_timeout(id, op name) (when set).
\* The scan times out exactly the entries whose age at the captured now is at
\* least the deadline of their own operation type.
C5_ActionByPolicy ==
  [][LET name(o) == CASE o = "SUBMIT" -> "submit"
                      [] o = "CANCEL" -> "cancel"
                      [] o = "REPLACE" -> "replace"
         deadline(o) == CASE o = "SUBMIT" -> cfg.submitTimeoutMs
                          [] o = "CANCEL" -> cfg.cancelTimeoutMs
                          [] o = "REPLACE" -> cfg.replaceTimeoutMs
         expected(h) ==
           CASE cfg.policy = "LOG_ONLY" -> <<>>
             [] cfg.policy = "REJECT" ->
                  IF cfg.hasOnReject
                    THEN <<[cb |-> "onReject", id |-> h.orderId,
                            arg |-> name(h.opType) \o " timeout"]>>
                    ELSE <<>>
             [] cfg.policy \in {"CALLBACK", "RECONCILE"} ->
                  IF cfg.hasOnTimeout
                    THEN <<[cb |-> "onTimeout", id |-> h.orderId, arg |-> name(h.opType)]>>
                    ELSE <<>>
     IN /\ \A g \in DOMAIN hist' :
             hist'[g].calls = IF hist'[g].fired = 0 THEN <<>> ELSE expected(hist'[g])
        /\ (chk.pc = "scan" /\ chk'.pc # "scan") =>
             /\ chk'.timedOut =
                  {e \in pending : chk.now - e.startTime >= deadline(e.opType)}
             /\ pending' = pending \ chk'.timedOut]_vars

\* under REJECT a cancel tracked at time 0 has been rejected with
\* "cancel timeout" while a submit tracked at the same time, whose deadline is
\* longer, is still pending
C5_Witness ==
  \E g \in DOMAIN hist :
    /\ cfg.policy = "REJECT"
    /\ hist[g].opType = "CANCEL" /\ hist[g].fired = 1
    /\ hist[g].calls = <<[cb |-> "onReject", id |-> hist[g].orderId, arg |-> "cancel timeout"]>>
    /\ \E e \in pending : e.opType = "SUBMIT" /\ e.startTime = 0
    /\ now < cfg.submitTimeoutMs

\* C6: _pending holds at most one entry per OrderId; tracking an id installs
\* exactly one entry for it, carrying the new operation type and the current
\* time, in place of whatever entry the id had, and touches no other id.
C6_OneEntryPerOrder ==
  [][/\ \A id \in OrderIds : Cardinality(EntriesOf(pending', id)) <= 1
     /\ Len(hist') = Len(hist) + 1 =>
          LET g == Len(hist')
              h == hist'[g]
          IN /\ EntriesOf(pending', h.orderId) =
                  {[orderId |-> h.orderId, opType |-> h.opType, startTime |-> now, gen |-> g]}
             /\ \A j \in OrderIds \ {h.orderId} :
                  EntriesOf(pending', j) = EntriesOf(pending, j)]_vars

\* an id was tracked, then tracked again later with another operation type:
\* the one pending entry is the newer one
C6_Witness ==
  \E g \in DOMAIN hist, e \in pending :
    /\ hist[g].replaced
    /\ e.orderId = hist[g].orderId /\ e.gen > g
    /\ e.opType # hist[g].opType
    /\ e.startTime > 0
    /\ EntriesOf(pending, e.orderId) = {e}

\* C7: clear_pending(id) is idempotent and local: afterwards the id has no
\* entry, so a second call erases nothing; with no entry for the id it changes
\* nothing at all; entries of other ids are never touched. (A clearPending
\* step is the one that leaves last a CLEAR record without a track, a checker
\* step or a clock tick.)
C7_ClearIdempotentLocal ==
  [][(last'.op = "CLEAR" /\ now' = now /\ chk' = chk /\ Len(hist') = Len(hist)) =>
       LET id == last'.id
       IN /\ EntriesOf(pending', id) = {}
          /\ \A j \in OrderIds \ {id} : EntriesOf(pending', j) = EntriesOf(pending, j)
          /\ EntriesOf(pending, id) = {} =>
               (pending' = pending /\ hist' = hist /\ chk' = chk)]_vars

\* clear_pending of an id was called twice in a row: the first call erased its
\* entry, the second erased nothing, and another id's entry is still pending
C7_Witness ==
  /\ last.op = "CLEAR" /\ last.removed = 0
  /\ \E g \in DOMAIN hist :
       hist[g].orderId = last.id /\ hist[g].cleared = 1 /\ Len(hist) = g
  /\ \E e \in pending : e.orderId # last.id

\* C8: when try_acquire returns false the operation returns at once: nothing
\* is tracked, nothing is dispatched, no tracker method is called. So with
\* REJECT or CALLBACK no more operations get past the limiter between two clock
\* ticks than the bucket holds, and with capacity 1 and REJECT, of two submits
\* issued before the clock advances only one is ever tracked or dispatched.
C8_RateLimitedReturns ==
  /\ last.acq = "false" =>
       (~last.sent /\ last.gen = 0 /\ last.calls = <<>> /\ last.reply = NoReply)
  /\ (LimiterPresent /\ cfg.rlPolicy \in {"REJECT", "CALLBACK"}) => grants <= cfg.capacity
  /\ (LimiterPresent /\ cfg.rlPolicy = "REJECT" /\ cfg.capacity = 1 /\ now = 0) =>
       /\ Len(hist) <= 1
       /\ Cardinality({t \in Threads : thr[t].pc \in {"track", "post", "inflight"}})
            + (IF last.sent THEN 1 ELSE 0) <= 1

\* capacity 1, REJECT, the clock has not advanced: the first submit is in
\* flight, the second submit, for another id, was refused and has returned
C8_Witness ==
  /\ LimiterPresent /\ cfg.rlPolicy = "REJECT" /\ cfg.capacity = 1 /\ now = 0
  /\ last.op = "SUBMIT" /\ last.acq = "false"
  /\ \E t \in Threads :
       thr[t].pc = "inflight" /\ thr[t].op = "SUBMIT" /\ thr[t].id # last.id

\* C9: try_acquire by mode. With a token available it consumes the token and
\* returns true without calling on_rate_limited. With none: REJECT returns
\* false; CALLBACK calls on_rate_limited(order id, wait) and returns false; WAIT
\* sleeps until a token is available, then takes one token and returns true.
C9_TryAcquireByMode ==
  (last.op = "NONE" /\ last.acq # "none") =>
    /\ last.slept => (cfg.rlPolicy = "WAIT" /\ last.acq = "true" /\ last.took)
    /\ (~last.slept /\ last.acq = "true") => (last.took /\ last.rlcb = <<>>)
    /\ last.acq = "false" =>
         /\ ~last.took
         /\ cfg.rlPolicy \in {"REJECT", "CALLBACK"}
         /\ cfg.rlPolicy = "REJECT" => last.rlcb = <<>>
         /\ (cfg.rlPolicy = "CALLBACK" /\ cfg.hasOnRateLimited) =>
              (Len(last.rlcb) = 1 /\ last.rlcb[1].id = last.id /\ last.rlcb[1].wait > 0)

\* C10: a submit whose symbol the registry does not know returns before any
\* request is composed or dispatched: it is never tracked, never in flight, and
\* the OrderTracker gets no order with such a symbol.
C10_UnknownSymbolSubmit ==
  /\ (last.op = "SUBMIT" /\ last.sym \notin Registered) =>
       (~last.sent /\ last.gen = 0 /\ last.calls = <<>> /\ last.reply = NoReply)
  /\ \A t \in Threads :
       (thr[t].op = "SUBMIT" /\ thr[t].sym \notin Registered) =>
         thr[t].pc \notin {"track", "post", "inflight"}
  /\ \A g \in DOMAIN hist :
       hist[g].opType = "SUBMIT" =>
         \A t \in Threads : (thr[t].gen = g) => thr[t].sym \in Registered
  /\ \A id \in OrderIds : orders[id].known => orders[id].symbol \in Registered

\* a submit for an unregistered symbol got its token and then returned: nothing
\* was tracked, nothing sent, the OrderTracker is as it was
C10_Witness ==
  /\ last.op = "SUBMIT" /\ last.sym \notin Registered /\ last.acq = "true"
  /\ ~last.sent
  /\ hist = <<>> /\ pending = {}
  /\ orders = InitialOrders
  /\ \A t \in Threads : thr[t].pc \in {"idle", "done"}

\* C11: every call of the transport's post / post_with_timeout invokes
\* exactly one of on_success / on_error, exactly once, on the calling thread
\* and before post returns, on every path: a frame invokes a continuation
\* only when it has invoked none yet; post returns only from a frame that has
\* invoked exactly one continuation, on_success when the request ended 2xx and
\* on_error when the pool gave no handle, curl failed or the status was non-2xx.
C11_OneContinuationPerPost ==
  [][\A t \in Threads :
       LET f == Top(t)
           expected == IF f.out = "ok" THEN <<"onSuccess">> ELSE <<"onError">>
       IN /\ Len(stk'[t]) < Len(stk[t]) =>
               /\ f.pc = "cont" /\ f.cbs = expected
               /\ f.out \in {"noHandle", "timeout", "curlError", "http", "ok"}
          /\ (Len(stk'[t]) = Len(stk[t]) /\ stk[t] # <<>> /\ stk'[t] # stk[t]) =>
               /\ \A i \in 1..(Len(stk[t]) - 1) : stk'[t][i] = stk[t][i]
               /\ stk'[t][Len(stk[t])].cbs # f.cbs =>
                    f.cbs = <<>> /\ stk'[t][Len(stk[t])].cbs = expected]_vars

\* one caller is inside on_error after a non-2xx reply while the other is
\* inside on_error after the pool gave it no handle in time
C11_Witness ==
  /\ InState("t1", "cont") /\ Top("t1").out = "http" /\ Top("t1").cbs = <<"onError">>
  /\ InState("t2", "cont") /\ Top("t2").out = "timeout" /\ Top("t2").cbs = <<"onError">>

\* C12 (as first stated): whenever a handle is released before the deadline
\* of a blocked acquirer, the blocked acquirer obtains a handle: an acquirer
\* that was the only one blocked when a handle went back to the pool, its
\* deadline still ahead, does not come back with "pool exhausted".
C12_ReleasedHandleReachesWaiter ==
  \A f \in Frames : f.out = "timeout" => ~f.passed

\* C12: acquire, when no handle is idle and max_size handles exist, blocks
\* until it finds the pool usable again or acquire_timeout_ms has elapsed. A
\* blocked acquirer leaves its wait either with a handle, which it gets
\* whenever it looks at the pool while a handle is idle, or with null once its
\* deadline has passed (or when creating a handle failed); a released handle
\* may be taken by another caller first. A null makes the transport call
\* on_error without performing any request or owning any handle.
C12_BlockUntilHandleOrDeadline ==
  /\ [](\A f \in Frames :
          /\ f.out = "timeout" => ~f.early
          /\ f.out \in {"timeout", "noHandle"} =>
               /\ ~f.held /\ f.pc \in {"released", "cont"}
               /\ f.pc = "cont" => f.cbs = <<"onError">>)
  /\ [][\A t \in Threads :
          (InState(t, "waiting") /\ stk'[t][Len(stk[t])].pc # "waiting") =>
             LET g == stk'[t][Len(stk[t])]
             IN \/ /\ g.pc = "perform" /\ g.held /\ ~MustWait(pool)
                   /\ pool.idle > 0 => pool'.idle = pool.idle - 1
                \/ g.out = "timeout" /\ now >= Top(t).deadline /\ pool' = pool
                \/ g.out = "noHandle" /\ pool.idle = 0 /\ pool' = pool]_vars

\* an acquirer blocked, its deadline passed, and its caller is inside on_error
C12_Witness ==
  \E t \in Threads :
    /\ InState(t, "cont") /\ Top(t).out = "timeout" /\ Top(t).cbs = <<"onError">>
    /\ ~Top(t).passed /\ now >= pool.acquireTimeoutMs

\* C13: for a pool built from a valid config, after any interleaving of
\* acquire and release the existing handles (idle plus in use) never exceed
\* max_size and the idle ones never exceed the existing ones; release puts the
\* handle back into the idle set while the pool is within max_size and
\* destroys it, decrementing the total, otherwise.
C13_PoolWithinMax ==
  /\ [](/\ pool.total <= pool.maxSize
        /\ pool.idle <= pool.total
        /\ pool.total = pool.idle + Held("t1") + Held("t2"))
  /\ [][\A t \in Threads :
          (InState(t, "perform") /\ stk'[t] # stk[t]) =>
             IF pool.idle < pool.maxSize
               THEN pool' = [pool EXCEPT !.idle = @ + 1]
               ELSE pool' = [pool EXCEPT !.total = @ - 1]]_vars

\* a pool that grew to its max_size has every handle back in the idle set
C13_Witness ==
  /\ pool.maxSize = MaxPoolSize /\ pool.total = pool.maxSize /\ pool.idle = pool.total
  /\ \A t \in Threads : InState(t, "released") /\ Top(t).out \in CurlResults

\* C14: the transport never invokes on_success / on_error while it still
\* owns the pooled handle: a frame that has invoked a continuation owns none,
\* only the innermost frame of a thread can own one, and an acquirer that
\* cannot proceed is kept out by a handle another thread owns, so a
\* continuation that posts on a pool with max_size 1 does not block on itself.
C14_ReleaseBeforeContinuation ==
  /\ \A f \in Frames : (f.pc = "cont" \/ f.cbs # <<>>) => ~f.held
  /\ \A t \in Threads :
       /\ \A i \in 1..(Len(stk[t]) - 1) : stk[t][i].pc = "cont" /\ ~stk[t][i].held
       /\ (InState(t, "waiting") /\ MustWait(pool)) =>
            \E u \in Threads \ {t} : Held(u) > 0

\* on a pool with max_size 1 that nobody else uses, a continuation has posted
\* again and the nested post owns the handle
C14_Witness ==
  /\ pool.maxSize = 1
  /\ Len(stk["t1"]) = 2 /\ Top("t1").pc = "perform" /\ Top("t1").held
  /\ stk["t1"][1].out = "ok"
  /\ stk["t2"] = <<>>

\* C15: for every connector, when stop() returns every thread the connector
\* owns (public websocket worker, private websocket worker, ping worker) has
\* terminated and been joined, and the websocket connection is closed.
C15_StopJoinsEverything ==
  (/\ conn.crashed = "no" /\ conn.pc = "idle"
   /\ conn.calls # <<>> /\ conn.calls[Len(conn.calls)] = "stop") =>
     /\ conn.ping = "none"
     /\ \A n \in WsNames : ~ws[n].joinable /\ ws[n].sock = "closed"

\* C16: once stop() has been called on a websocket client its worker never
\* opens a connection again: no _ws.start() runs after stop(), and a worker
\* that has exited after stop() leaves the underlying socket closed.
C16_NoConnectAfterStop ==
  \A n \in WsNames :
    /\ ~ws[n].late
    /\ (ws[n].stopped /\ ws[n].th = "exited") => ws[n].sock = "closed"

C18_InvalidConfigNeverRuns ==
  ~conn.valid =>
    /\ ~conn.running /\ conn.ping = "none"
    /\ \A n \in WsNames : ~ws[n].joinable /\ ~ws[n].running /\ ws[n].sock = "closed"

\* C19: connector lifecycle is Idle -> Running -> Stopped with no other
\* transitions: a stop() on a connector that never ran has no effect, and a
\* connector that was running and has been stopped never runs again: after
\* such a stop() no start() leaves it running with a live websocket worker.
C19_NoRestart ==
  /\ ("start" \notin {conn.calls[i] : i \in 1..Len(conn.calls)}) =>
       ~conn.stoppedOnce /\ ~conn.running /\ conn.pc = "idle"
  /\ conn.stoppedOnce =>
       ~(/\ conn.running /\ conn.crashed = "no"
         /\ ws["pub"].exists /\ ws["pub"].running /\ ws["pub"].joinable)

\* C20: every BookUpdateEvent a connector publishes has at least one bid
\* level or at least one ask level; a frame whose parsed bid and ask lists
\* are both empty publishes nothing.
C20_PublishedBookNonEmpty ==
  book.published => (book.bids # <<>> \/ book.asks # <<>>)

\* C21: a book frame that finds the event pool without a free slot is dropped:
\* nothing is published for it and nothing else changes, the symbol registry
\* and the connector's symbol cache included.
C21_DroppedFrameChangesNothing ==
  [][ing'.n # ing.n /\ ing'.last = "dropped" =>
       /\ ing'.bus = ing.bus
       /\ ing'.free = ing.free
       /\ ing'.known = ing.known
       /\ ing'.escaped = ing.escaped]_vars

\* C22: what the handlers of one connection have published stands on the bus in
\* the order the frames were received and, within one frame, in the order of
\* the frame's entries; nothing of a frame is held back: every event on the
\* bus belongs to a frame whose handler has returned.
C22_PublishedInReceiveOrder ==
  /\ \A j, k \in 1..Len(ing.bus) :
        j < k => \/ ing.bus[j].f < ing.bus[k].f
                 \/ ing.bus[j].f = ing.bus[k].f /\ ing.bus[j].i < ing.bus[k].i
  /\ \A k \in 1..Len(ing.bus) : ing.bus[k].f <= ing.n

\* two entries of one frame were published, then an event of a later frame
C22_Witness ==
  \E j, k, l \in 1..Len(ing.bus) :
    /\ j < k /\ k < l
    /\ ing.bus[j].f = ing.bus[k].f /\ ing.bus[j].i < ing.bus[k].i
    /\ ing.bus[k].f < ing.bus[l].f
    /\ ing.bus[l].kind = "order"
\* C27: whatever frame arrives, no exception leaves the message handler for
\* the websocket worker: a frame that cannot be parsed ends in the handler's
\* catch clause or in an early return, and the handler's state stays usable.
C27_NoErrorLeavesHandler ==
  /\ ~ing.escaped
  /\ ing.last = "caught" => ing.erred
  /\ ing.free \in 0..MaxSlots

\* a frame ended in a catch clause and the frame after it was published
C27_Witness ==
  /\ ing.erred /\ ing.last = "ok"
  /\ ing.bus # <<>> /\ ing.bus[Len(ing.bus)].f = ing.n
  /\ \A k \in 1..Len(ing.bus) : ing.bus[k].f = ing.n
\* C23: no string is ever resolved to two different SymbolIds, whichever
\* threads the resolutions run on, and no resolution brings the process down.
C23_ResolutionStable ==
  /\ ~syms.crashed
  /\ \A s \in Symbols : Cardinality(syms.got[s]) <= 1
\* C24: start() while running creates no second checker thread, and once a
\* stop() has returned the checker thread has ended and been joined and no
\* timeout pass runs any more, whatever the interleaving of start(), stop()
\* and the destructor; the process never terminates over the thread object.
C24_StopJoinsChecker ==
  /\ ~life.crashed
  /\ ~life.late
  /\ life.stopped => life.worker = "none" /\ life.th # "joinable"
  /\ life.gone => life.worker = "none"

\* C25: a tracker is never constructed from a config with a non-positive
\* timeout or check interval: construction reports an error, and no executor
\* is left with a timeout policy that tracks nothing.
C25_InvalidConfigFailsConstruction ==
  life.how # "none" /\ ~isValidTimeout(life.cfg) => life.error /\ ~life.tracker
\* C26: timed-out entries leave _pending while the checker holds the mutex,
\* and while a policy callback runs the checker does not hold it: a tracker
\* call made by the callback is never left waiting for its own thread, and
\* the mutex is free for other threads except while one of them, or the
\* callback's own call, is inside a tracker method.
C26_CallbacksOutsideLock ==
  /\ mtx.pc \in {"fire", "callback"} => mtx.holder # "checker"
  /\ mtx.pc = "scan" <=> mtx.holder = "checker"
  /\ mtx.cb = "lock" /\ (\A t \in Threads : mtx.at[t] # "in") => ENABLED callbackLocked

\* inside a callback: its own tracker call is in the critical section while
\* another thread waits its turn, and another entry is still to be reported
C26_Witness ==
  /\ mtx.pc = "callback" /\ mtx.cb = "in" /\ mtx.holder = "callback"
  /\ \E t \in Threads : mtx.at[t] = "lock"
  /\ mtx.timedOut # {mtx.cur}
\* C28: the policy action having fired for an operation changes nothing for
\* its request: the continuation runs when the reply arrives, its
\* clearPending finds no entry of the operation left to erase, and a reply
\* carrying the venue's success makes the same OrderTracker call as it would
\* have made in time.
C28_TimeoutLeavesRequestInFlight ==
  /\ last.late =>
        /\ last.sent /\ last.gen \in DOMAIN hist
        /\ hist[last.gen].answered /\ hist[last.gen].cleared = 0
        /\ hist[last.gen].fired = 1
        /\ last.gen \notin Gens(pending)
        /\ last.reply.transport = "ok" =>
              last.calls = SuccessCalls(cfg.venue, last.op, last.reply)
        /\ last.reply = [transport |-> "ok", code |-> "ok", oid |-> "string"] =>
              last.calls # <<>>
  /\ \A t \in Threads :
        thr[t].pc = "inflight" /\ thr[t].gen # 0 /\ hist[thr[t].gen].fired > 0 =>
          ENABLED Continuation(t)

\* onReject(id, "submit timeout") was invoked and then, the reply arriving
\* with the venue's success, onSubmitted for the same id
C28_Witness ==
  /\ last.late /\ last.op = "SUBMIT" /\ last.calls = <<"onSubmitted">>
  /\ hist[last.gen].calls =
       <<[cb |-> "onReject", id |-> last.id, arg |-> "submit timeout"]>>
  /\ orders[last.id].known
\* C29: a websocket worker leaves the outer loop of run() only when it reads
\* _running false, and a connection that is down is followed by a new
\* _ws.start() of the same worker unless stop() closes the client first (or
\* the process has died).
C29_ReconnectsWhileRunning ==
  /\ [][\A n \in WsNames :
          ws'[n].th = "exited" /\ ws[n].th # "exited" => ~ws[n].running]_vars
  /\ \A n \in WsNames :
       (ws[n].sock = "down") ~> (ws[n].sock # "down" \/ ~Alive)

\* never stopped, the connection went down, and the worker is back in the
\* outer loop, about to call _ws.start() again
C29_Witness ==
  \E n \in WsNames :
    /\ ws[n].sock = "down" /\ ws[n].th = "starting"
    /\ ws[n].running /\ ~ws[n].stopped /\ Alive
\* C30: on every connection the open handler sends the complete subscription
\* set: every configured symbol is in exactly one message of each channel
\* the venue subscribes, in config order; Bitget sends ceil(n / 10) messages
\* of at most 10 symbols each.
C30_CompleteSubscriptionPerConnection ==
  sub.up =>
    LET chans == {sub.sent[m].chan : m \in 1..Len(sub.sent)}
        order(c) ==
          LET RECURSIVE Cat(_)
              Cat(m) == IF m = 0 THEN <<>>
                        ELSE Cat(m - 1) \o (IF sub.sent[m].chan = c THEN sub.sent[m].syms
                                                                    ELSE <<>>)
          IN Cat(Len(sub.sent))
    IN /\ \A c \in chans : order(c) = [i \in 1..Len(sub.names) |-> i]
       /\ sub.names # <<>> => chans # {}
       /\ sub.venue = "Bitget" =>
            /\ Len(sub.sent) * BATCH_SIZE >= Len(sub.names)
            /\ (Len(sub.sent) - 1) * BATCH_SIZE < Len(sub.names) \/ sub.names = <<>>
            /\ \A m \in 1..Len(sub.sent) : Len(sub.sent[m].syms) \in 1..BATCH_SIZE
\* C31: on every open of Bybit's private websocket the auth message is sent
\* first; the subscribe to order and execution is sent only once an auth
\* reply with success = true has been received on that connection, never
\* after a failed auth reply and never before any auth reply.
C31_SubscribeOnlyAfterAuthSuccess ==
  LET ok == \E i \in 1..Len(priv.got) : priv.got[i] = "authOk"
  IN IF priv.up
       THEN /\ priv.sent[1] = "auth"
            /\ priv.sent = IF ok THEN <<"auth", "subscribe">> ELSE <<"auth">>
       ELSE priv.sent = <<>>

C31_Witness ==
  priv.opens = 2 /\ priv.up /\ priv.got = <<"service", "authOk">>
    /\ priv.sent = <<"auth", "subscribe">>
C37_FailedLoadNeverRetried ==
  /\ hl.metaPosts <= 1
  /\ hl.loaded => hl.metaPosts = 1
  /\ hl.meta \in {"noUniverse", "fetchError"} => hl.assets = {}
  /\ hl.ops > 0 /\ hl.meta \in {"noUniverse", "fetchError"} =>
       /\ hl.signer = "none" /\ hl.tracked = 0 /\ hl.posts = 0
       /\ \A i \in 1..Len(hl.calls) :
            hl.calls[i] \notin {"hl_sign_with_sdk", "track", "post"}

C37_Witness ==
  hl.meta = "fetchError" /\ hl.assets = {} /\ hl.ops = 2
    /\ hl.calls = <<"SUBMIT", "getSymbolInfo", "assetIdFor">>
\* C33: a row that does not parse as numbers is dropped alone: a published
\* book event holds no level whose price or size is not a number, and holds
\* every well-formed level of the frame, in the frame's order.
C33_BadRowsSkipped ==
  book.published =>
    \A side \in {<<book.bidsIn, book.bids>>, <<book.asksIn, book.asks>>} :
      /\ \A i \in 1..Len(side[2]) : side[2][i] # "bad"
      /\ SelectSeq(side[2], LAMBDA r : r = "ok")
           = SelectSeq(side[1].rows, LAMBDA r : r = "ok")
\* C34: the continuation of an operation on id erases whatever entry is
\* pending for id, the entry a later cancel or replace of the same id
\* created included; an entry erased this way never times out, even while
\* the operation that created it is still unanswered.
C34_ClearRemovesLaterEntry ==
  /\ [](\A g \in DOMAIN hist :
          hist[g].cleared > 0 =>
            /\ hist[g].fired = 0
            /\ g \notin Gens(pending) \cup Gens(chk.timedOut))
  /\ [][\A t \in Threads :
          thr[t].pc = "inflight" /\ thr'[t].pc = "done" =>
            /\ EntriesOf(pending', thr[t].id) = {}
            /\ \A e \in EntriesOf(pending, thr[t].id) : hist'[e.gen].cleared = 1]_vars

C34_Witness ==
  /\ thr["t1"] = DoneThread /\ last.op = "SUBMIT" /\ last.id = 1
  /\ thr["t2"].pc = "inflight" /\ thr["t2"].op = "CANCEL" /\ thr["t2"].id = 1
  /\ thr["t2"].gen = 2 /\ hist[2].cleared = 1 /\ ~hist[2].answered /\ hist[2].fired = 0
  /\ now = MaxTime /\ pending = {} /\ chk.pc = "sleep"
\* C35: after a connector's stop() has returned none of its websocket clients
\* has an open connection or a worker about to open one, so no open or
\* message handler runs, nothing is sent and nothing is published any more.
C35_NoHandlerAfterStop ==
  (/\ conn.crashed = "no" /\ conn.pc = "idle"
   /\ conn.calls # <<>> /\ conn.calls[Len(conn.calls)] = "stop") =>
     \A n \in WsNames : ws[n].sock # "open" /\ ws[n].th # "starting"
\* C40: the ping worker of Bitget and Hyperliquid never sends on a websocket
\* client that has been stopped or released: stop() clears running and joins
\* the ping thread before it touches a client; the ping loop sees running
\* cleared within one sleep chunk, so the join ends, and once stop() has
\* returned there is no ping thread left to send.
C40_NoPingAfterStop ==
  /\ [](conn.pinged # "stale")
  /\ [](conn.ping \in {"run", "send"} /\ ~conn.running /\ Alive =>
          /\ conn.pc = "join_ping"
          /\ ws["pub"].exists /\ ~ws["pub"].stopped)
  /\ ((conn.pc = "join_ping" /\ Alive) ~> (conn.pc = "stop" /\ conn.ping = "none"))

C40_Witness ==
  /\ conn.venue = "Bitget" /\ conn.pinged = "stopping" /\ conn.pc = "idle"
  /\ conn.calls = <<"start", "stop">> /\ conn.ping = "none" /\ ~ws["pub"].exists

\* C36: every handle post acquires from the session pool is released to it
\* exactly once, on every path (2xx, non-2xx, curl error) and before post
\* returns: the existing handles are the idle ones plus those the frames in
\* progress own, so with no post in progress every existing handle is idle;
\* a frame past its request owns none and post returns only from such a frame;
\* a step that ends a request puts exactly that one handle back, the idle set
\* grows in no other step, and no step destroys a handle, so repeated posts
\* never shrink the pool.
C36_HandleConservation ==
  /\ [](/\ pool.total = pool.idle + Held("t1") + Held("t2")
        /\ (\A t \in Threads : stk[t] = <<>>) => pool.idle = pool.total
        /\ \A f \in Frames : f.held <=> f.pc = "perform")
  /\ [][/\ pool'.total >= pool.total
        /\ \A t \in Threads :
             /\ Len(stk'[t]) < Len(stk[t]) =>
                  ~Top(t).held /\ Held(t) = 0 /\ pool' = pool
             /\ (InState(t, "perform") /\ stk'[t] # stk[t]) =>
                  /\ stk'[t][Len(stk[t])].out \in CurlResults
                  /\ ~stk'[t][Len(stk[t])].held
                  /\ pool'.idle = pool.idle + 1 /\ pool'.total = pool.total
        /\ pool'.idle > pool.idle =>
             \E t \in Threads : Held(t) = 1 /\ InState(t, "perform") /\ stk'[t] # stk[t]]_vars

\* requests that ended with a curl error and with a non-2xx status have both
\* handed their handles back: the callers are inside on_error and every
\* handle of a pool grown to max_size is idle
C36_Witness ==
  /\ InState("t1", "cont") /\ Top("t1").out = "curlError"
  /\ InState("t2", "cont") /\ Top("t2").out = "http"
  /\ pool.maxSize = MaxPoolSize /\ pool.idle = pool.total /\ pool.total = MaxPoolSize

\* C38: an ActiveRateLimitPolicy initialised with an invalid config (capacity 0
\* or refill rate 0) creates no limiter, and its tryAcquire returns true for
\* every order and every bucket content without invoking on_rate_limited,
\* without sleeping and without touching a token; an executor built this way
\* takes exactly the steps of the NoRateLimitPolicy variant: every operation
\* that is entered goes on as it does after NoRateLimitPolicy::tryAcquire, and
\* no step changes the bucket.
C38_InvalidConfigFailsOpen ==
  /\ [](/\ cfg.rlOn /\ ~LimiterPresent
        /\ \A tok \in 0..MaxCapacity, id \in OrderIds :
             tryAcquire(tok, id) =
               [res |-> "true", tokens |-> tok, took |-> FALSE, rlcb |-> <<>>, wait |-> 0]
        /\ \A t \in Threads : thr[t].pc # "waiting"
        /\ last.acq # "false" /\ last.rlcb = <<>> /\ ~last.took /\ ~last.slept)
  /\ [][/\ tokens' = tokens
        /\ \A t \in Threads :
             (thr[t].pc = "idle" /\ thr'[t] # thr[t]) =>
               \E op \in {"SUBMIT", "CANCEL", "REPLACE"}, id \in OrderIds,
                  sym \in Symbols \cup {"none"}, sigOk \in BOOLEAN :
                 NoRateLimitPolicy(t, op, id, sym, AfterAcquire(op, id, sym, sigOk))]_vars

\* capacity 0 under REJECT, the clock has not advanced: one submit is in
\* flight and another one was dispatched, answered and reported to the
\* OrderTracker
C38_Witness ==
  /\ cfg.rlOn /\ cfg.capacity = 0 /\ cfg.rlPolicy = "REJECT" /\ now = 0
  /\ last.op = "SUBMIT" /\ last.acq = "true" /\ last.sent
  /\ last.calls = <<"onSubmitted">>
  /\ \E t \in Threads : thr[t].pc = "inflight" /\ thr[t].op = "SUBMIT"

\* C39: no pool slot leaks in the message handlers: a BookUpdateEvent acquired
\* while a frame is handled is, when the handler returns, either moved into a
\* bus publish or dropped, its slot back in the pool, on every path. A frame
\* takes as many slots out of the pool as it publishes book updates, none
\* when it ends in an early return, with both sides empty or in the catch
\* clause; so between frames every slot that is out of the pool belongs to a
\* published book update and the connector holds none.
C39_NoSlotLeak ==
  /\ [](/\ ing.free <= MaxSlots
        /\ MaxSlots - ing.free <=
             Cardinality({k \in 1..Len(ing.bus) : ing.bus[k].kind = "book"}))
  /\ [][ing'.n # ing.n =>
          LET new == {k \in (Len(ing.bus) + 1)..Len(ing'.bus) : ing'.bus[k].kind = "book"}
          IN /\ ing.free - ing'.free = Cardinality(new)
             /\ (ing'.last # "ok" \/ ing'.kind # "book") => ing'.free = ing.free
             /\ (ing'.kind = "book" /\ ing'.bus = ing.bus) => ing'.free = ing.free]_vars

\* a book update was published and its consumer let go of it; the next book
\* frame got the slot, threw while it was parsed, and the slot is free again
C39_Witness ==
  /\ ing.n = 2 /\ ing.kind = "book" /\ ing.last = "caught"
  /\ ing.free = MaxSlots
  /\ Len(ing.bus) = 1 /\ ing.bus[1].kind = "book" /\ ing.bus[1].f = 1

====
